---- MODULE Spec2Model ----
(***************************************************************************)
(* Validation of proficiency-routing payloads                              *)
(* (src/proficiency_routing/type.py).                                      *)
(*                                                                         *)
(* The input is a decoded JSON document; ProficiencyRoutingPayload(doc)    *)
(* is the pydantic validation of that document.  Every validator of the    *)
(* source is an operator of the same name that returns a result record:    *)
(* either the constructed model instance or the raised exception.          *)
(***************************************************************************)
EXTENDS Integers, Sequences, FiniteSets, TLC

VARIABLES doc, pc, result, dumped, again, calls, visited

vars == <<doc, pc, result, dumped, again, calls, visited>>

----------------------------------------------------------------------------
(* Decoded JSON values: every value carries its type tag.  An object's     *)
(* keys are the domain of its field o, so "k in values" is k \in DOMAIN.   *)
(* Numbers are integers, and the strings of the documents are text that is *)
(* not a numeral, so a string is never read as a number.                   *)

Null == [t |-> "null"]
Num(n) == [t |-> "num", n |-> n]
Str(s) == [t |-> "str", s |-> s]
Arr(a) == [t |-> "arr", a |-> a]
Obj(o) == [t |-> "obj", o |-> o]
EmptyObj == Obj(<<>>)

IsObj(v) == v.t = "obj"
IsArr(v) == v.t = "arr"
IsNum(v) == v.t = "num"
IsStr(v) == v.t = "str"
Has(v, k) == k \in DOMAIN v.o
Get(v, k) == v.o[k]

(* Python's None, as the value of an unset Optional field.                 *)
None == [t |-> "None"]

----------------------------------------------------------------------------
(* Results of validators.  A failure is the raised exception: a plain      *)
(* ValueError carries one message; a pydantic ValidationError carries one  *)
(* line per failing location.  A line's ctx holds the lines of a           *)
(* ValidationError that was raised inside a validator and so became the    *)
(* text of that line's message.                                            *)

Err(loc, msg) == [loc |-> loc, msg |-> msg, ctx |-> <<>>]
Ok(v) == [ok |-> TRUE, val |-> v, exc |-> "", errs |-> <<>>]
RaiseValueError(msg) ==
    [ok |-> FALSE, val |-> None, exc |-> "ValueError", errs |-> <<Err(<<>>, msg)>>]
RaiseValidationError(errs) ==
    [ok |-> FALSE, val |-> None, exc |-> "ValidationError", errs |-> errs]

(* The error line pydantic records when a validator raised r.              *)
ValidatorLine(r) ==
    IF r.exc = "ValueError"
    THEN r.errs[1]
    ELSE [loc |-> <<>>, msg |-> "Value error", ctx |-> r.errs]

(* Error lines of a nested location get the location as a prefix.          *)
Prefix(p, errs) ==
    [i \in 1..Len(errs) |-> [errs[i] EXCEPT !.loc = p \o @]]

(* The lines a field contributes to its model's ValidationError.           *)
FieldErrs(k, r) ==
    IF r.ok THEN <<>>
    ELSE IF r.exc = "ValueError" THEN Prefix(<<k>>, <<ValidatorLine(r)>>)
    ELSE Prefix(<<k>>, r.errs)

MsgMissing == "Field required"
MsgModelType == "Input should be a valid dictionary or instance"
MsgListType == "Input should be a valid list"
MsgTooShort == "List should have at least 1 item"
MsgStrType == "Input should be a valid string"
MsgFloatType == "Input should be a valid number"
MsgIntType == "Input should be a valid integer"
MsgLiteral == "Input should be 'Range' or 'NumberGreaterOrEqualTo'"
MsgGreaterThan == "Input should be greater than 0"

TypeError(msg) == RaiseValidationError(<<Err(<<>>, msg)>>)

(* The result of a field whose validator returned or raised r.             *)
FromValidator(r) ==
    IF r.ok THEN r ELSE RaiseValidationError(<<ValidatorLine(r)>>)

----------------------------------------------------------------------------
(* RangeSpec                                                               *)

RangeSpec_MinProficiencyLevel(values) ==
    IF ~Has(values, "MinProficiencyLevel") THEN TypeError(MsgMissing)
    ELSE IF IsNum(Get(values, "MinProficiencyLevel"))
         THEN Ok(Get(values, "MinProficiencyLevel").n)
         ELSE TypeError(MsgFloatType)

RangeSpec_MaxProficiencyLevel(values) ==
    IF ~Has(values, "MaxProficiencyLevel") THEN TypeError(MsgMissing)
    ELSE IF IsNum(Get(values, "MaxProficiencyLevel"))
         THEN Ok(Get(values, "MaxProficiencyLevel").n)
         ELSE TypeError(MsgFloatType)

check_min_le_max_NoCheck(self) == Ok(self)

check_min_le_max(self) ==
    IF self.MinProficiencyLevel > self.MaxProficiencyLevel
    THEN RaiseValueError("MinProficiencyLevel must be <= MaxProficiencyLevel")
    ELSE Ok(self)

(* The model built from its validated fields, then the "after" validator.  *)
RangeSpec_fields(lo, hi) ==
    LET errs == FieldErrs("MinProficiencyLevel", lo)
                    \o FieldErrs("MaxProficiencyLevel", hi)
    IN  IF errs # <<>> THEN RaiseValidationError(errs)
        ELSE FromValidator(check_min_le_max(
                [t |-> "RangeSpec",
                 MinProficiencyLevel |-> lo.val,
                 MaxProficiencyLevel |-> hi.val]))

RangeSpec(values) ==
    RangeSpec_fields(RangeSpec_MinProficiencyLevel(values),
                     RangeSpec_MaxProficiencyLevel(values))

----------------------------------------------------------------------------
(* AttributeCondition                                                      *)

AttributeCondition_Name(values) ==
    IF ~Has(values, "Name") THEN TypeError(MsgMissing)
    ELSE IF IsStr(Get(values, "Name")) THEN Ok(Get(values, "Name").s)
    ELSE TypeError(MsgStrType)

AttributeCondition_Value(values) ==
    IF ~Has(values, "Value") THEN TypeError(MsgMissing)
    ELSE IF IsStr(Get(values, "Value")) THEN Ok(Get(values, "Value").s)
    ELSE TypeError(MsgStrType)

AttributeCondition_ProficiencyLevel(values) ==
    IF ~Has(values, "ProficiencyLevel") THEN Ok(None)
    ELSE IF Get(values, "ProficiencyLevel") = Null THEN Ok(None)
    ELSE IF IsNum(Get(values, "ProficiencyLevel"))
         THEN Ok(Get(values, "ProficiencyLevel"))
         ELSE TypeError(MsgFloatType)

ComparisonOperators == {"Range", "NumberGreaterOrEqualTo"}

AttributeCondition_ComparisonOperator_AnyString(values) ==
    IF ~Has(values, "ComparisonOperator") THEN TypeError(MsgMissing)
    ELSE IF IsStr(Get(values, "ComparisonOperator"))
         THEN Ok(Get(values, "ComparisonOperator").s)
         ELSE TypeError(MsgStrType)

AttributeCondition_ComparisonOperator(values) ==
    IF ~Has(values, "ComparisonOperator") THEN TypeError(MsgMissing)
    ELSE IF /\ IsStr(Get(values, "ComparisonOperator"))
            /\ Get(values, "ComparisonOperator").s \in ComparisonOperators
         THEN Ok(Get(values, "ComparisonOperator").s)
         ELSE TypeError(MsgLiteral)

AttributeCondition_Range(values) ==
    IF ~Has(values, "Range") THEN Ok(None)
    ELSE IF Get(values, "Range") = Null THEN Ok(None)
    ELSE IF IsObj(Get(values, "Range")) THEN RangeSpec(Get(values, "Range"))
    ELSE TypeError(MsgModelType)

(* The forbidden field looked at before the required one.                  *)
check_operator_field_consistency_ForbiddenFirst(self) ==
    IF self.ComparisonOperator = "Range" /\ self.ProficiencyLevel # None
    THEN RaiseValueError("ProficiencyLevel must not be set when ComparisonOperator is 'Range'")
    ELSE IF self.ComparisonOperator = "Range" /\ self.Range = None
    THEN RaiseValueError("Range must be provided when ComparisonOperator is 'Range'")
    ELSE IF self.ComparisonOperator = "NumberGreaterOrEqualTo"
            /\ self.Range # None
    THEN RaiseValueError("Range must not be set when ComparisonOperator is 'NumberGreaterOrEqualTo'")
    ELSE IF self.ComparisonOperator = "NumberGreaterOrEqualTo"
            /\ self.ProficiencyLevel = None
    THEN RaiseValueError("ProficiencyLevel must be provided when ComparisonOperator is 'NumberGreaterOrEqualTo'")
    ELSE Ok(self)

check_operator_field_consistency_RequiredOnly(self) ==
    IF self.ComparisonOperator = "Range" /\ self.Range = None
    THEN RaiseValueError("Range must be provided when ComparisonOperator is 'Range'")
    ELSE IF self.ComparisonOperator = "NumberGreaterOrEqualTo"
            /\ self.ProficiencyLevel = None
    THEN RaiseValueError("ProficiencyLevel must be provided when ComparisonOperator is 'NumberGreaterOrEqualTo'")
    ELSE Ok(self)

check_operator_field_consistency(self) ==
    IF self.ComparisonOperator = "Range" /\ self.Range = None
    THEN RaiseValueError("Range must be provided when ComparisonOperator is 'Range'")
    ELSE IF self.ComparisonOperator = "Range" /\ self.ProficiencyLevel # None
    THEN RaiseValueError("ProficiencyLevel must not be set when ComparisonOperator is 'Range'")
    ELSE IF self.ComparisonOperator = "NumberGreaterOrEqualTo"
            /\ self.ProficiencyLevel = None
    THEN RaiseValueError("ProficiencyLevel must be provided when ComparisonOperator is 'NumberGreaterOrEqualTo'")
    ELSE IF self.ComparisonOperator = "NumberGreaterOrEqualTo"
            /\ self.Range # None
    THEN RaiseValueError("Range must not be set when ComparisonOperator is 'NumberGreaterOrEqualTo'")
    ELSE Ok(self)

AttributeCondition_fields(name, value, level, op, range) ==
    LET errs == FieldErrs("Name", name) \o FieldErrs("Value", value)
                    \o FieldErrs("ProficiencyLevel", level)
                    \o FieldErrs("ComparisonOperator", op)
                    \o FieldErrs("Range", range)
    IN  IF errs # <<>> THEN RaiseValidationError(errs)
        ELSE FromValidator(check_operator_field_consistency(
                [t |-> "AttributeCondition",
                 Name |-> name.val, Value |-> value.val,
                 ProficiencyLevel |-> level.val,
                 ComparisonOperator |-> op.val,
                 Range |-> range.val]))

AttributeCondition(values) ==
    AttributeCondition_fields(AttributeCondition_Name(values),
                              AttributeCondition_Value(values),
                              AttributeCondition_ProficiencyLevel(values),
                              AttributeCondition_ComparisonOperator(values),
                              AttributeCondition_Range(values))

(* A field typed as the AttributeCondition model.                          *)
AttributeConditionField(values, k) ==
    IF ~Has(values, k) THEN TypeError(MsgMissing)
    ELSE IF IsObj(Get(values, k)) THEN AttributeCondition(Get(values, k))
    ELSE TypeError(MsgModelType)

AttributeConditionExpr_fields(c) ==
    IF ~c.ok THEN RaiseValidationError(FieldErrs("AttributeCondition", c))
    ELSE Ok([t |-> "AttributeConditionExpr", AttributeCondition |-> c.val])

AttributeConditionExpr(values) ==
    AttributeConditionExpr_fields(
        AttributeConditionField(values, "AttributeCondition"))

NotAttributeConditionExpr_fields(c) ==
    IF ~c.ok THEN RaiseValidationError(FieldErrs("NotAttributeCondition", c))
    ELSE Ok([t |-> "NotAttributeConditionExpr",
             NotAttributeCondition |-> c.val])

NotAttributeConditionExpr(values) ==
    NotAttributeConditionExpr_fields(
        AttributeConditionField(values, "NotAttributeCondition"))

----------------------------------------------------------------------------
(* CompoundExpr and parse_expression_item (mutually recursive)             *)

RECURSIVE parse_expression_item(_)
RECURSIVE CompoundExpr(_)
RECURSIVE parse_items(_, _)

MsgSingleKey ==
    "Compound expression must have exactly one of AndExpression or OrExpression"

ensure_single_key_KeysPresent(values) ==
    IF ~IsObj(values) THEN Ok(values)
    ELSE IF Cardinality({k \in {"AndExpression", "OrExpression"} :
                            Has(values, k)}) # 1
         THEN RaiseValueError(MsgSingleKey)
         ELSE Ok(values)

ensure_single_key_AtMostOne(values) ==
    IF ~IsObj(values) THEN Ok(values)
    ELSE IF Cardinality({k \in {"AndExpression", "OrExpression"} :
                            Has(values, k) /\ Get(values, k) # Null}) > 1
         THEN RaiseValueError(MsgSingleKey)
         ELSE Ok(values)

ensure_single_key(values) ==
    IF ~IsObj(values) THEN Ok(values)
    ELSE IF Cardinality({k \in {"AndExpression", "OrExpression"} :
                            Has(values, k) /\ Get(values, k) # Null}) # 1
         THEN RaiseValueError(MsgSingleKey)
         ELSE Ok(values)

(* A Python list, as the value of a field that may also be None.           *)
List(items) == [t |-> "list", items |-> items]
AsList(r) == IF r.ok THEN Ok(List(r.val)) ELSE r

(* [parse_expression_item(item) for item in v], from element i on: the    *)
(* first element that raises ends the comprehension with its exception.   *)
parse_items_cons(head, tail) ==
    IF ~head.ok THEN head
    ELSE IF ~tail.ok THEN tail
    ELSE Ok(<<head.val>> \o tail.val)

parse_items(v, i) ==
    IF i > Len(v) THEN Ok(<<>>)
    ELSE parse_items_cons(parse_expression_item(v[i]), parse_items(v, i + 1))

parse_and_FirstOnly(v) ==
    IF v = Null THEN Ok(None)
    ELSE IF ~IsArr(v) THEN RaiseValueError("AndExpression must be a list")
    ELSE IF Len(v.a) = 0 THEN RaiseValueError("AndExpression must not be empty")
    ELSE AsList(parse_items(<<v.a[1]>>, 1))

parse_and(v) ==
    IF v = Null THEN Ok(None)
    ELSE IF ~IsArr(v) THEN RaiseValueError("AndExpression must be a list")
    ELSE IF Len(v.a) = 0 THEN RaiseValueError("AndExpression must not be empty")
    ELSE AsList(parse_items(v.a, 1))

(* An OrExpression that takes conditions only, no nested compound node.    *)
parse_or_LeavesOnly(v) ==
    IF v = Null THEN Ok(None)
    ELSE IF ~IsArr(v) THEN RaiseValueError("OrExpression must be a list")
    ELSE IF Len(v.a) = 0 THEN RaiseValueError("OrExpression must not be empty")
    ELSE IF \E i \in DOMAIN v.a :
                /\ IsObj(v.a[i])
                /\ Has(v.a[i], "AndExpression") \/ Has(v.a[i], "OrExpression")
         THEN RaiseValueError("OrExpression must hold conditions")
    ELSE AsList(parse_items(v.a, 1))

(* parse_or without its test for None.                                     *)
parse_or_NoneChecked(v) ==
    IF ~IsArr(v) THEN RaiseValueError("OrExpression must be a list")
    ELSE IF Len(v.a) = 0 THEN RaiseValueError("OrExpression must not be empty")
    ELSE AsList(parse_items(v.a, 1))

parse_or(v) ==
    IF v = Null THEN Ok(None)
    ELSE IF ~IsArr(v) THEN RaiseValueError("OrExpression must be a list")
    ELSE IF Len(v.a) = 0 THEN RaiseValueError("OrExpression must not be empty")
    ELSE AsList(parse_items(v.a, 1))

CompoundExpr_AndExpression(values) ==
    IF ~Has(values, "AndExpression") THEN Ok(None)
    ELSE FromValidator(parse_and(Get(values, "AndExpression")))

CompoundExpr_OrExpression(values) ==
    IF ~Has(values, "OrExpression") THEN Ok(None)
    ELSE FromValidator(parse_or(Get(values, "OrExpression")))

CompoundExpr_fields(a, o) ==
    LET errs == FieldErrs("AndExpression", a) \o FieldErrs("OrExpression", o)
    IN  IF errs # <<>> THEN RaiseValidationError(errs)
        ELSE Ok([t |-> "CompoundExpr",
                 AndExpression |-> a.val,
                 OrExpression |-> o.val])

(* The fields validated first, the single-key check after them.            *)
CompoundExpr_FieldsFirst(values) ==
    IF ~CompoundExpr_fields(CompoundExpr_AndExpression(values),
                            CompoundExpr_OrExpression(values)).ok
    THEN CompoundExpr_fields(CompoundExpr_AndExpression(values),
                             CompoundExpr_OrExpression(values))
    ELSE IF ~ensure_single_key(values).ok
    THEN FromValidator(ensure_single_key(values))
    ELSE CompoundExpr_fields(CompoundExpr_AndExpression(values),
                             CompoundExpr_OrExpression(values))

CompoundExpr(values) ==
    IF ~ensure_single_key(values).ok
    THEN FromValidator(ensure_single_key(values))
    ELSE CompoundExpr_fields(CompoundExpr_AndExpression(values),
                             CompoundExpr_OrExpression(values))

(* NotAttributeCondition tested before AttributeCondition.                  *)
parse_expression_item_NotFirst(item) ==
    IF ~IsObj(item) THEN RaiseValueError("Expression items must be objects")
    ELSE IF Has(item, "NotAttributeCondition")
         THEN NotAttributeConditionExpr(item)
    ELSE IF Has(item, "AttributeCondition") THEN AttributeConditionExpr(item)
    ELSE IF Has(item, "AndExpression") \/ Has(item, "OrExpression")
         THEN CompoundExpr(item)
    ELSE RaiseValueError("Unknown expression type in item")

parse_expression_item(item) ==
    IF ~IsObj(item) THEN RaiseValueError("Expression items must be objects")
    ELSE IF Has(item, "AttributeCondition") THEN AttributeConditionExpr(item)
    ELSE IF Has(item, "NotAttributeCondition")
         THEN NotAttributeConditionExpr(item)
    ELSE IF Has(item, "AndExpression") \/ Has(item, "OrExpression")
         THEN CompoundExpr(item)
    ELSE RaiseValueError("Unknown expression type in item")

----------------------------------------------------------------------------
(* ExpiryRule                                                              *)

check_positive_duration(v) ==
    IF v <= 0 THEN RaiseValueError("DurationInSeconds must be positive")
    ELSE Ok(v)

ExpiryRule_DurationInSeconds_NonNegative(values) ==
    IF ~Has(values, "DurationInSeconds") THEN TypeError(MsgMissing)
    ELSE IF ~IsNum(Get(values, "DurationInSeconds")) THEN TypeError(MsgIntType)
    ELSE IF Get(values, "DurationInSeconds").n < 0
         THEN TypeError(MsgGreaterThan)
    ELSE Ok(Get(values, "DurationInSeconds").n)

ExpiryRule_DurationInSeconds(values) ==
    IF ~Has(values, "DurationInSeconds") THEN TypeError(MsgMissing)
    ELSE IF ~IsNum(Get(values, "DurationInSeconds")) THEN TypeError(MsgIntType)
    ELSE IF ~(Get(values, "DurationInSeconds").n > 0)
         THEN TypeError(MsgGreaterThan)
    ELSE check_positive_duration(Get(values, "DurationInSeconds").n)

ExpiryRule_fields(d) ==
    IF ~d.ok THEN RaiseValidationError(FieldErrs("DurationInSeconds", d))
    ELSE Ok([t |-> "ExpiryRule", DurationInSeconds |-> d.val])

ExpiryRule(values) == ExpiryRule_fields(ExpiryRule_DurationInSeconds(values))

----------------------------------------------------------------------------
(* Step                                                                    *)

(* The compound keys tested before the two leaf keys.                      *)
parse_expression_CompoundFirst(v) ==
    IF ~IsObj(v) THEN RaiseValueError("Expression must be an object")
    ELSE IF Has(v, "AndExpression") \/ Has(v, "OrExpression")
         THEN CompoundExpr(v)
    ELSE IF Has(v, "AttributeCondition") THEN AttributeConditionExpr(v)
    ELSE IF Has(v, "NotAttributeCondition") THEN NotAttributeConditionExpr(v)
    ELSE RaiseValueError("Invalid Expression value")

parse_expression_NoRaise(v) ==
    IF ~IsObj(v) THEN RaiseValueError("Expression must be an object")
    ELSE IF Has(v, "AttributeCondition") THEN AttributeConditionExpr(v)
    ELSE IF Has(v, "NotAttributeCondition") THEN NotAttributeConditionExpr(v)
    ELSE IF Has(v, "AndExpression") \/ Has(v, "OrExpression")
         THEN CompoundExpr(v)
    ELSE Ok(None)

parse_expression(v) ==
    IF ~IsObj(v) THEN RaiseValueError("Expression must be an object")
    ELSE IF Has(v, "AttributeCondition") THEN AttributeConditionExpr(v)
    ELSE IF Has(v, "NotAttributeCondition") THEN NotAttributeConditionExpr(v)
    ELSE IF Has(v, "AndExpression") \/ Has(v, "OrExpression")
         THEN CompoundExpr(v)
    ELSE RaiseValueError("Invalid Expression value")

Step_Expression(values) ==
    IF ~Has(values, "Expression") THEN TypeError(MsgMissing)
    ELSE FromValidator(parse_expression(Get(values, "Expression")))

Step_Expiry_Untyped(values) ==
    IF ~Has(values, "Expiry") THEN Ok(None)
    ELSE IF Get(values, "Expiry") = Null THEN Ok(None)
    ELSE IF IsObj(Get(values, "Expiry")) THEN ExpiryRule(Get(values, "Expiry"))
    ELSE Ok(Get(values, "Expiry"))

Step_Expiry(values) ==
    IF ~Has(values, "Expiry") THEN Ok(None)
    ELSE IF Get(values, "Expiry") = Null THEN Ok(None)
    ELSE IF IsObj(Get(values, "Expiry")) THEN ExpiryRule(Get(values, "Expiry"))
    ELSE TypeError(MsgModelType)

Step_fields(e, x) ==
    LET errs == FieldErrs("Expression", e) \o FieldErrs("Expiry", x)
    IN  IF errs # <<>> THEN RaiseValidationError(errs)
        ELSE Ok([t |-> "Step", Expression |-> e.val, Expiry |-> x.val])

Step(values) == Step_fields(Step_Expression(values), Step_Expiry(values))

----------------------------------------------------------------------------
(* ProficiencyRoutingPayload                                               *)

RECURSIVE StepItems(_, _)
(* The items of Steps: every item is validated, and the lines of all      *)
(* failing items are collected under the item's index.                    *)
StepItems_cons_SkipInvalid(i, head, tail) ==
    IF ~tail.ok THEN tail
    ELSE IF ~head.ok THEN tail
    ELSE Ok(<<head.val>> \o tail.val)

StepItems_cons(i, head, tail) ==
    LET errs == FieldErrs(ToString(i - 1), head) \o tail.errs
    IN  IF errs # <<>> THEN RaiseValidationError(errs)
        ELSE Ok(<<head.val>> \o tail.val)

StepItems(a, i) ==
    IF i > Len(a) THEN Ok(<<>>)
    ELSE StepItems_cons(i,
            IF IsObj(a[i]) THEN Step(a[i]) ELSE TypeError(MsgModelType),
            StepItems(a, i + 1))

check_steps_not_empty(v) ==
    IF Len(v) = 0 THEN RaiseValueError("Steps must contain at least one step")
    ELSE Ok(v)

(* The list after its items: min_length=1, then the field validator.       *)
Steps_min_length(items) ==
    IF ~items.ok THEN items
    ELSE IF Len(items.val) < 1 THEN TypeError(MsgTooShort)
    ELSE check_steps_not_empty(items.val)

ProficiencyRoutingPayload_Steps_Defaulted(values) ==
    IF ~Has(values, "Steps") THEN Ok(<<>>)
    ELSE IF ~IsArr(Get(values, "Steps")) THEN TypeError(MsgListType)
    ELSE Steps_min_length(StepItems(Get(values, "Steps").a, 1))

ProficiencyRoutingPayload_Steps(values) ==
    IF ~Has(values, "Steps") THEN TypeError(MsgMissing)
    ELSE IF ~IsArr(Get(values, "Steps")) THEN TypeError(MsgListType)
    ELSE Steps_min_length(StepItems(Get(values, "Steps").a, 1))

MsgExpiryRequired == "Expiry is required for all steps except the last one"

validate_expiry_rules_AllSteps(self) ==
    IF Len(self.Steps) <= 1 THEN Ok(self)
    ELSE IF \E i \in 1..Len(self.Steps) : self.Steps[i].Expiry = None
         THEN RaiseValueError(MsgExpiryRequired)
         ELSE Ok(self)

validate_expiry_rules(self) ==
    IF Len(self.Steps) <= 1 THEN Ok(self)
    ELSE IF \E i \in 1..(Len(self.Steps) - 1) : self.Steps[i].Expiry = None
         THEN RaiseValueError(MsgExpiryRequired)
         ELSE Ok(self)

ProficiencyRoutingPayload_fields(s) ==
    IF ~s.ok THEN RaiseValidationError(FieldErrs("Steps", s))
    ELSE FromValidator(validate_expiry_rules(
            [t |-> "ProficiencyRoutingPayload", Steps |-> s.val]))

(* The expiry rule applied to the raw steps, before any step is parsed.     *)
ProficiencyRoutingPayload_ExpiryFirst(values) ==
    IF ~IsObj(values) THEN TypeError(MsgModelType)
    ELSE IF /\ Has(values, "Steps") /\ IsArr(Get(values, "Steps"))
            /\ \E i \in 1..(Len(Get(values, "Steps").a) - 1) :
                  /\ IsObj(Get(values, "Steps").a[i])
                  /\ \/ ~Has(Get(values, "Steps").a[i], "Expiry")
                     \/ Get(Get(values, "Steps").a[i], "Expiry") = Null
    THEN FromValidator(RaiseValueError(MsgExpiryRequired))
    ELSE ProficiencyRoutingPayload_fields(
            ProficiencyRoutingPayload_Steps(values))

ProficiencyRoutingPayload(values) ==
    IF ~IsObj(values) THEN TypeError(MsgModelType)
    ELSE ProficiencyRoutingPayload_fields(
            ProficiencyRoutingPayload_Steps(values))

----------------------------------------------------------------------------
(* What validation leaves of its input.  X_arg(v) is the object v after    *)
(* X(v) has returned or raised.  A validator of a field is handed the very *)
(* object the document holds at that field (parse_expression, parse_and,   *)
(* parse_or); a model built from keyword arguments gets a dict of its own  *)
(* that holds the values of the caller's dict (ensure_single_key), so only *)
(* the values under its keys are shared with the document.                 *)

RECURSIVE parse_expression_item_arg(_)
RECURSIVE comprehension_arg(_, _)

(* [parse_expression_item(item) for item in v]: the items up to the first  *)
(* that raises are visited, and the parsed items go to a new list.         *)
comprehension_arg(v, i) ==
    IF i > Len(v) THEN v
    ELSE IF ~parse_expression_item(v[i]).ok
         THEN [v EXCEPT ![i] = parse_expression_item_arg(v[i])]
    ELSE [comprehension_arg(v, i + 1) EXCEPT
                ![i] = parse_expression_item_arg(v[i])]

(* A parser that takes the items off the list it was handed.               *)
parse_and_arg_Consume(v) ==
    IF v = Null THEN v
    ELSE IF ~IsArr(v) THEN v
    ELSE Arr(<<>>)

parse_and_arg(v) ==
    IF v = Null THEN v
    ELSE IF ~IsArr(v) THEN v
    ELSE IF Len(v.a) = 0 THEN v
    ELSE Arr(comprehension_arg(v.a, 1))

parse_or_arg(v) ==
    IF v = Null THEN v
    ELSE IF ~IsArr(v) THEN v
    ELSE IF Len(v.a) = 0 THEN v
    ELSE Arr(comprehension_arg(v.a, 1))

(* The field validators run only when ensure_single_key has returned.      *)
CompoundExpr_arg(item) ==
    IF ~ensure_single_key(item).ok THEN item
    ELSE Obj([k \in DOMAIN item.o |->
                IF k = "AndExpression" THEN parse_and_arg(item.o[k])
                ELSE IF k = "OrExpression" THEN parse_or_arg(item.o[k])
                ELSE item.o[k]])

parse_expression_item_arg(item) ==
    IF ~IsObj(item) THEN item
    ELSE IF Has(item, "AttributeCondition") THEN item
    ELSE IF Has(item, "NotAttributeCondition") THEN item
    ELSE IF Has(item, "AndExpression") \/ Has(item, "OrExpression")
         THEN CompoundExpr_arg(item)
    ELSE item

parse_expression_arg(v) ==
    IF ~IsObj(v) THEN v
    ELSE IF Has(v, "AttributeCondition") THEN v
    ELSE IF Has(v, "NotAttributeCondition") THEN v
    ELSE IF Has(v, "AndExpression") \/ Has(v, "OrExpression")
         THEN CompoundExpr_arg(v)
    ELSE v

Step_arg(values) ==
    IF ~IsObj(values) THEN values
    ELSE IF ~Has(values, "Expression") THEN values
    ELSE Obj(("Expression" :> parse_expression_arg(Get(values, "Expression")))
                @@ values.o)

ProficiencyRoutingPayload_arg(values) ==
    IF ~IsObj(values) THEN values
    ELSE IF ~Has(values, "Steps") THEN values
    ELSE IF ~IsArr(Get(values, "Steps")) THEN values
    ELSE Obj(("Steps" :> Arr([i \in 1..Len(Get(values, "Steps").a) |->
                                Step_arg(Get(values, "Steps").a[i])]))
                @@ values.o)

----------------------------------------------------------------------------
(* Contact-flow events (src/contact_flow_event/type.py).  The models have  *)
(* no validators of their own: a model is its declared fields, each        *)
(* required (Field(...)) or Optional with default None, of a declared type.*)

MsgDictType == "Input should be a valid dictionary"
MsgEnum == "Input should be"

(* A Python dict, as the value of a field that may also be None.           *)
Dict(items) == [t |-> "dict", items |-> items]

(* A member of an Enum class.                                              *)
Member(cls, name) == [t |-> "enum", cls |-> cls, name |-> name]

(* The input of field k: its value, or null where the key is absent.       *)
At(values, k) == IF Has(values, k) THEN Get(values, k) ELSE Null

(* A field declared Field(...), whose type gives r for the input At(k).    *)
RequiredField(values, k, r) ==
    IF ~Has(values, k) THEN TypeError(MsgMissing) ELSE r

(* A field declared Optional[...] = Field(None, ...).                      *)
OptionalField(values, k, r) ==
    IF ~Has(values, k) THEN Ok(None)
    ELSE IF Get(values, k) = Null THEN Ok(None)
    ELSE r

(* A field typed as a model that gives r for a dict: the input must be a   *)
(* dict.                                                                   *)
ModelField(v, r) == IF IsObj(v) THEN r ELSE TypeError(MsgModelType)

RECURSIVE FieldsErrs(_, _, _)
(* The error lines of the fields rs, in the order the class declares them. *)
FieldsErrs(order, rs, i) ==
    IF i > Len(order) THEN <<>>
    ELSE FieldErrs(order[i], rs[order[i]]) \o FieldsErrs(order, rs, i + 1)

(* The instance of class cls built from the validated fields rs.           *)
ModelOf(cls, order, rs) ==
    IF FieldsErrs(order, rs, 1) # <<>>
    THEN RaiseValidationError(FieldsErrs(order, rs, 1))
    ELSE Ok([k \in DOMAIN rs |-> rs[k].val] @@ ("t" :> cls))

str_type(v) == IF IsStr(v) THEN Ok(v.s) ELSE TypeError(MsgStrType)
required_str(values, k) == RequiredField(values, k, str_type(At(values, k)))
optional_str(values, k) == OptionalField(values, k, str_type(At(values, k)))
float_type(v) == IF IsNum(v) THEN Ok(v.n) ELSE TypeError(MsgFloatType)

(* An Enum field: the member whose value is the input.                     *)
EnumValue_AnyString(cls, members, v) ==
    IF IsStr(v) THEN Ok(Member(cls, v.s)) ELSE TypeError(MsgEnum)

EnumValue(cls, members, v) ==
    IF IsStr(v) /\ v.s \in members THEN Ok(Member(cls, v.s))
    ELSE TypeError(MsgEnum)

RECURSIVE ItemsErrs(_, _)
(* The error lines of the entries rs of a dict, each under its key.        *)
ItemsErrs(rs, keys) ==
    IF keys = {} THEN <<>>
    ELSE FieldErrs(CHOOSE k \in keys : TRUE, rs[CHOOSE k \in keys : TRUE])
            \o ItemsErrs(rs, keys \ {CHOOSE k \in keys : TRUE})

(* The dict whose entries validated to rs.                                 *)
DictOf(rs) ==
    IF ItemsErrs(rs, DOMAIN rs) # <<>>
    THEN RaiseValidationError(ItemsErrs(rs, DOMAIN rs))
    ELSE Ok(Dict([k \in DOMAIN rs |-> rs[k].val]))

(* dict[str, str]                                                          *)
dict_str_str(v) ==
    IF ~IsObj(v) THEN TypeError(MsgDictType)
    ELSE DictOf([k \in DOMAIN v.o |-> str_type(v.o[k])])

RECURSIVE ListErrs(_, _)
ListErrs(rs, i) ==
    IF i > Len(rs) THEN <<>>
    ELSE FieldErrs(ToString(i - 1), rs[i]) \o ListErrs(rs, i + 1)

(* list[str]                                                               *)
list_str(v) ==
    IF ~IsArr(v) THEN TypeError(MsgListType)
    ELSE IF ListErrs([i \in 1..Len(v.a) |-> str_type(v.a[i])], 1) # <<>>
    THEN RaiseValidationError(
            ListErrs([i \in 1..Len(v.a) |-> str_type(v.a[i])], 1))
    ELSE Ok(List([i \in 1..Len(v.a) |-> v.a[i].s]))

ConnectContactFlowChannel_values == {"VOICE", "CHAT", "TASK", "EMAIL"}
ConnectContactFlowEndpointType_values == {"TELEPHONE_NUMBER", "EMAIL_ADDRESS"}
ConnectContactFlowInitiationMethod_values ==
    {"INBOUND", "OUTBOUND", "TRANSFER", "CALLBACK", "API", "DISCONNECT",
     "FLOW"}
ConnectContactReferenceType_values ==
    {"URL", "ATTACHMENT", "STRING", "CONTACT_ANALYSIS", "NUMBER", "DATE",
     "EMAIL", "EMAIL_MESSAGE"}
ConnectContactReferenceStatus_values ==
    {"AVAILABLE", "DELETED", "APPROVED", "REJECTED", "PROCESSING", "FAILED"}

ConnectContactFlowChannel(v) ==
    EnumValue("ConnectContactFlowChannel", ConnectContactFlowChannel_values, v)

ConnectContactFlowEndpointType(v) ==
    EnumValue("ConnectContactFlowEndpointType",
              ConnectContactFlowEndpointType_values, v)

ConnectContactFlowInitiationMethod(v) ==
    EnumValue("ConnectContactFlowInitiationMethod",
              ConnectContactFlowInitiationMethod_values, v)

ConnectContactReferenceType(v) ==
    EnumValue("ConnectContactReferenceType",
              ConnectContactReferenceType_values, v)

ConnectContactReferenceStatus(v) ==
    EnumValue("ConnectContactReferenceStatus",
              ConnectContactReferenceStatus_values, v)

ConnectContactFlowEndpoint(values) ==
    ModelOf("ConnectContactFlowEndpoint", <<"Address", "Type", "DisplayName">>,
        [Address |-> required_str(values, "Address"),
         Type |-> RequiredField(values, "Type",
             ConnectContactFlowEndpointType(At(values, "Type"))),
         DisplayName |-> optional_str(values, "DisplayName")])

ConnectContactFlowQueue(values) ==
    ModelOf("ConnectContactFlowQueue", <<"ARN", "Name">>,
        [ARN |-> required_str(values, "ARN"),
         Name |-> required_str(values, "Name")])

ConnectContactFlowMediaStreamAudio(values) ==
    ModelOf("ConnectContactFlowMediaStreamAudio",
        <<"StartFragmentNumber", "StartTimestamp", "StreamARN">>,
        [StartFragmentNumber |->
            optional_str(values, "StartFragmentNumber"),
         StartTimestamp |-> optional_str(values, "StartTimestamp"),
         StreamARN |-> optional_str(values, "StreamARN")])

ConnectContactFlowMediaStreamCustomer_Audio_Optional(values) ==
    OptionalField(values, "Audio",
            ModelField(At(values, "Audio"),
                ConnectContactFlowMediaStreamAudio(At(values, "Audio"))))

ConnectContactFlowMediaStreamCustomer_Audio(values) ==
    RequiredField(values, "Audio",
            ModelField(At(values, "Audio"),
                ConnectContactFlowMediaStreamAudio(At(values, "Audio"))))

ConnectContactFlowMediaStreamCustomer(values) ==
    ModelOf("ConnectContactFlowMediaStreamCustomer", <<"Audio">>,
        [Audio |-> ConnectContactFlowMediaStreamCustomer_Audio(values)])

ConnectContactFlowMediaStreams(values) ==
    ModelOf("ConnectContactFlowMediaStreams", <<"Customer">>,
        [Customer |-> RequiredField(values, "Customer",
            ModelField(At(values, "Customer"),
                ConnectContactFlowMediaStreamCustomer(At(values, "Customer"))))])

ConnectContactReferenceFields(values) ==
    ModelOf("ConnectContactReferenceFields",
        <<"Arn", "Status", "StatusReason", "Type", "Value">>,
        [Arn |-> optional_str(values, "Arn"),
         Status |-> OptionalField(values, "Status",
                                  ConnectContactReferenceStatus(At(values, "Status"))),
         StatusReason |-> optional_str(values, "StatusReason"),
         Type |-> OptionalField(values, "Type",
             ConnectContactReferenceType(At(values, "Type"))),
         Value |-> optional_str(values, "Value")])

ConnectContactSegmentAttributes(values) ==
    ModelOf("ConnectContactSegmentAttributes",
        <<"ValueArn", "ValueInteger", "ValueList", "ValueMap", "ValueString">>,
        [ValueArn |-> optional_str(values, "ValueArn"),
         ValueInteger |-> OptionalField(values, "ValueInteger",
             float_type(At(values, "ValueInteger"))),
         ValueList |-> OptionalField(values, "ValueList",
             list_str(At(values, "ValueList"))),
         ValueMap |-> OptionalField(values, "ValueMap",
             dict_str_str(At(values, "ValueMap"))),
         ValueString |-> optional_str(values, "ValueString")])

ConnectContactFlowAdditionalEmailRecipients(values) ==
    ModelOf("ConnectContactFlowAdditionalEmailRecipients",
        <<"CcList", "ToList">>,
        [CcList |-> RequiredField(values, "CcList", list_str(At(values, "CcList"))),
         ToList |-> RequiredField(values, "ToList",
             list_str(At(values, "ToList")))])

(* dict[str, ConnectContactReferenceFields]                                *)
dict_str_ConnectContactReferenceFields(v) ==
    IF ~IsObj(v) THEN TypeError(MsgDictType)
    ELSE DictOf([k \in DOMAIN v.o |->
                    ModelField(v.o[k], ConnectContactReferenceFields(v.o[k]))])

ConnectContactFlowData_AwsRegion(values) ==
    required_str(values, "AwsRegion")

ConnectContactFlowData_order ==
    <<"Attributes", "AwsRegion", "Channel", "ContactId", "CustomerEndpoint",
      "CustomerId", "Description", "InitialContactId", "InitiationMethod",
      "InstanceARN", "LanguageCode", "MediaStreams", "Name",
      "PreviousContactId", "Queue", "References", "RelatedContactId",
      "SegmentAttributes", "SystemEndpoint", "Tags",
      "AdditionalEmailRecipients">>

ConnectContactFlowData(values) ==
    ModelOf("ConnectContactFlowData", ConnectContactFlowData_order,
        [Attributes |-> RequiredField(values, "Attributes", dict_str_str(At(values, "Attributes"))),
         AwsRegion |-> ConnectContactFlowData_AwsRegion(values),
         Channel |-> RequiredField(values, "Channel",
             ConnectContactFlowChannel(At(values, "Channel"))),
         ContactId |-> required_str(values, "ContactId"),
         CustomerEndpoint |-> OptionalField(values, "CustomerEndpoint",
            ModelField(At(values, "CustomerEndpoint"),
                ConnectContactFlowEndpoint(At(values, "CustomerEndpoint")))),
         CustomerId |-> optional_str(values, "CustomerId"),
         Description |-> optional_str(values, "Description"),
         InitialContactId |->
            required_str(values, "InitialContactId"),
         InitiationMethod |-> RequiredField(values, "InitiationMethod",
            ConnectContactFlowInitiationMethod(At(values, "InitiationMethod"))),
         InstanceARN |-> required_str(values, "InstanceARN"),
         LanguageCode |-> optional_str(values, "LanguageCode"),
         MediaStreams |-> RequiredField(values, "MediaStreams",
            ModelField(At(values, "MediaStreams"),
                ConnectContactFlowMediaStreams(At(values, "MediaStreams")))),
         Name |-> optional_str(values, "Name"),
         PreviousContactId |->
            required_str(values, "PreviousContactId"),
         Queue |-> OptionalField(values, "Queue",
            ModelField(At(values, "Queue"),
                ConnectContactFlowQueue(At(values, "Queue")))),
         References |-> OptionalField(values, "References",
            dict_str_ConnectContactReferenceFields(At(values, "References"))),
         RelatedContactId |->
            optional_str(values, "RelatedContactId"),
         SegmentAttributes |-> OptionalField(values, "SegmentAttributes",
            ModelField(At(values, "SegmentAttributes"),
                ConnectContactSegmentAttributes(At(values, "SegmentAttributes")))),
         SystemEndpoint |-> OptionalField(values, "SystemEndpoint",
            ModelField(At(values, "SystemEndpoint"),
                ConnectContactFlowEndpoint(At(values, "SystemEndpoint")))),
         Tags |-> OptionalField(values, "Tags",
             dict_str_str(At(values, "Tags"))),
         AdditionalEmailRecipients |->
            OptionalField(values, "AdditionalEmailRecipients",
            ModelField(At(values, "AdditionalEmailRecipients"),
                ConnectContactFlowAdditionalEmailRecipients(
                    At(values, "AdditionalEmailRecipients"))))])

ConnectContactFlowEventDetails(values) ==
    ModelOf("ConnectContactFlowEventDetails", <<"ContactData", "Parameters">>,
        [ContactData |-> RequiredField(values, "ContactData",
            ModelField(At(values, "ContactData"),
                ConnectContactFlowData(At(values, "ContactData")))),
         Parameters |-> RequiredField(values, "Parameters",
             dict_str_str(At(values, "Parameters")))])

ConnectContactFlowEvent(values) ==
    IF ~IsObj(values) THEN TypeError(MsgModelType)
    ELSE ModelOf("ConnectContactFlowEvent", <<"Details">>,
            [Details |-> RequiredField(values, "Details",
            ModelField(At(values, "Details"),
                ConnectContactFlowEventDetails(At(values, "Details"))))])

----------------------------------------------------------------------------
(* model_dump(): every declared field of a model appears in the dump, an   *)
(* unset Optional field as null, a model-valued field as its own dump.     *)

RangeSpec_dump(m) ==
    Obj([MinProficiencyLevel |-> Num(m.MinProficiencyLevel),
         MaxProficiencyLevel |-> Num(m.MaxProficiencyLevel)])

AttributeCondition_dump(m) ==
    Obj([Name |-> Str(m.Name),
         Value |-> Str(m.Value),
         ProficiencyLevel |->
            IF m.ProficiencyLevel = None THEN Null ELSE m.ProficiencyLevel,
         ComparisonOperator |-> Str(m.ComparisonOperator),
         Range |-> IF m.Range = None THEN Null ELSE RangeSpec_dump(m.Range)])

AttributeConditionExpr_dump(m) ==
    Obj([AttributeCondition |-> AttributeCondition_dump(m.AttributeCondition)])

NotAttributeConditionExpr_dump(m) ==
    Obj([NotAttributeCondition |->
            AttributeCondition_dump(m.NotAttributeCondition)])

RECURSIVE CompoundExpr_dump(_)
RECURSIVE Any_dump(_)

(* An Optional[List[Any]] field: null, or the list of its items' dumps.    *)
OptionalList_dump(v) ==
    IF v = None THEN Null
    ELSE Arr([i \in 1..Len(v.items) |-> Any_dump(v.items[i])])

CompoundExpr_dump(m) ==
    Obj([AndExpression |-> OptionalList_dump(m.AndExpression),
         OrExpression |-> OptionalList_dump(m.OrExpression)])

(* A value of a field typed Any is dumped by the model it is.              *)
Any_dump(v) ==
    IF v.t = "AttributeConditionExpr" THEN AttributeConditionExpr_dump(v)
    ELSE IF v.t = "NotAttributeConditionExpr"
         THEN NotAttributeConditionExpr_dump(v)
    ELSE CompoundExpr_dump(v)

ExpiryRule_dump(m) == Obj([DurationInSeconds |-> Num(m.DurationInSeconds)])

Step_dump(m) ==
    Obj([Expression |-> Any_dump(m.Expression),
         Expiry |-> IF m.Expiry = None THEN Null ELSE ExpiryRule_dump(m.Expiry)])

ProficiencyRoutingPayload_dump(m) ==
    Obj([Steps |-> Arr([i \in 1..Len(m.Steps) |-> Step_dump(m.Steps[i])])])

----------------------------------------------------------------------------
(* The documents handed to validation.                                     *)

MaxLevel == 2
MaxOperands == 2
MaxDepth == 2
MaxSteps == 3

Levels == 1..MaxLevel

(* The fragments {} and {k: v} for v in vs, merged into objects with @@.   *)
Opt(k, vs) == {<<>>} \cup {k :> v : v \in vs}

RangeObjs ==
    {Obj([MinProficiencyLevel |-> Num(a), MaxProficiencyLevel |-> Num(b)]) :
        a \in Levels, b \in Levels}

(* Name and Value both given, or one of them missing.                      *)
NameValues ==
    {[Name |-> Str("Language"), Value |-> Str("English")],
     [Name |-> Str("Language")], [Value |-> Str("English")]}

AttrConds ==
    {Obj(nv @@ c @@ l @@ r) :
        nv \in NameValues,
        c \in Opt("ComparisonOperator",
                  {Str("Range"), Str("NumberGreaterOrEqualTo"), Str("Equals")}),
        l \in Opt("ProficiencyLevel", {Null, Num(1)}),
        r \in Opt("Range", {Null, Str("1-2")} \cup RangeObjs)}

LevelCond ==
    Obj([Name |-> Str("Language"), Value |-> Str("English"),
         ComparisonOperator |-> Str("NumberGreaterOrEqualTo"),
         ProficiencyLevel |-> Num(1)])
RangeCond ==
    Obj([Name |-> Str("Language"), Value |-> Str("English"),
         ComparisonOperator |-> Str("Range"),
         Range |-> Obj([MinProficiencyLevel |-> Num(1),
                        MaxProficiencyLevel |-> Num(MaxLevel)])])
BothSetCond ==
    Obj([Name |-> Str("Language"), Value |-> Str("English"),
         ComparisonOperator |-> Str("Range"),
         ProficiencyLevel |-> Num(1),
         Range |-> Obj([MinProficiencyLevel |-> Num(1),
                        MaxProficiencyLevel |-> Num(MaxLevel)])])
ReversedRangeCond ==
    Obj([Name |-> Str("Language"), Value |-> Str("English"),
         ComparisonOperator |-> Str("Range"),
         Range |-> Obj([MinProficiencyLevel |-> Num(MaxLevel),
                        MaxProficiencyLevel |-> Num(1)])])

ValidExpr == Obj("AttributeCondition" :> LevelCond)
UnknownExpr ==
    Obj("UnknownCondition" :>
            Obj([Name |-> Str("Language"), Value |-> Str("English")]))

(* Expression objects with one leaf key.                                   *)
LeafExprs ==
    {Obj(k :> c) : k \in {"AttributeCondition", "NotAttributeCondition"},
                   c \in AttrConds}

(* Expression objects with any combination of the four discriminator keys. *)
MultiKeyExprs ==
    {Obj(a @@ n @@ x @@ y) :
        a \in Opt("AttributeCondition", {Null, LevelCond, BothSetCond}),
        n \in Opt("NotAttributeCondition", {RangeCond, ReversedRangeCond}),
        x \in Opt("AndExpression",
                  {Null, Arr(<<>>), Arr(<<ValidExpr>>), Arr(<<Str("x")>>)}),
        y \in Opt("OrExpression",
                  {Null, Arr(<<>>), Arr(<<ValidExpr>>), Arr(<<Str("x")>>)})}

(* The operands that compound expressions are built over.                  *)
CoreExprs ==
    { ValidExpr,
      Obj("NotAttributeCondition" :> RangeCond),
      Obj("AttributeCondition" :> BothSetCond),
      Obj("NotAttributeCondition" :> ReversedRangeCond),
      Obj("AttributeCondition" :> Null),
      UnknownExpr,
      EmptyObj,
      Str("not_a_valid_expression"),
      Obj(("AttributeCondition" :> LevelCond)
            @@ ("AndExpression" :> Arr(<<Str("x")>>))),
      Obj(("AndExpression" :> Arr(<<ValidExpr>>))
            @@ ("OrExpression" :> Arr(<<ValidExpr>>))) }

(* Operand arrays of length 0..MaxOperands with one element drawn from P   *)
(* and ValidExpr elsewhere.                                                *)
Arrays(P) ==
    {<<>>} \cup
    {[i \in 1..n |-> IF i = j THEN e ELSE ValidExpr] :
        n \in 1..MaxOperands, j \in 1..MaxOperands, e \in P}

Compounds(P) ==
    {Obj(k :> Arr(a)) : k \in {"AndExpression", "OrExpression"},
                        a \in Arrays(P)}
    \cup {Obj(("AndExpression" :> Arr(a)) @@ ("OrExpression" :> Null)) :
            a \in Arrays(P)}

(* One more level of nesting around the expressions of P.                  *)
Nest(P) ==
    {Obj("AndExpression" :> Arr(<<e>>)) : e \in P}
    \cup {Obj("OrExpression" :> Arr(<<ValidExpr, e>>)) : e \in P}

(* Expressions nested up to depth d.                                       *)
RECURSIVE Pool(_)
Pool(d) == IF d = 0 THEN CoreExprs
           ELSE IF d = 1 THEN CoreExprs \cup Compounds(CoreExprs)
           ELSE Pool(d - 1) \cup Nest(Pool(d - 1) \ CoreExprs)

Exprs ==
    LeafExprs \cup MultiKeyExprs \cup Pool(MaxDepth)
        \cup {Null, Str("expr"), Arr(<<>>)}

ValidExpiry == Obj([DurationInSeconds |-> Num(1)])
Expiries ==
    {Null, ValidExpiry, Obj([DurationInSeconds |-> Num(0)]),
     Obj([DurationInSeconds |-> Num(-1)]), EmptyObj, Str("not_an_object")}

(* Steps for multi-step documents.                                         *)
StepPool ==
    {Obj(("Expression" :> ValidExpr) @@ x) :
        x \in Opt("Expiry", {Null, ValidExpiry, Str("not_an_object"),
                             Obj([DurationInSeconds |-> Num(0)]),
                             Obj([DurationInSeconds |-> Num(-1)])})}
    \cup {Obj(e @@ ("Expiry" :> ValidExpiry)) :
            e \in Opt("Expression", {UnknownExpr, Str("expr")})}

RECURSIVE SeqsUpTo(_, _)
SeqsUpTo(S, n) ==
    IF n = 0 THEN {<<>>}
    ELSE LET shorter == SeqsUpTo(S, n - 1)
         IN  shorter \cup {Append(q, x) : q \in {r \in shorter : Len(r) = n - 1},
                                          x \in S}

Docs ==
    {Obj("Steps" :> Arr(<<Obj("Expression" :> e)>>)) : e \in Exprs}
    \cup {Obj("Steps" :> Arr(<<Obj(("Expression" :> e) @@ x),
                               Obj("Expression" :> ValidExpr)>>)) :
            e \in Pool(MaxDepth), x \in Opt("Expiry", {ValidExpiry})}
    \cup {Obj("Steps" :> Arr(q)) : q \in SeqsUpTo(StepPool, MaxSteps)}
    \cup {Obj("Steps" :> Arr(<<Obj(("Expression" :> ValidExpr) @@ x)>>)) :
            x \in Opt("Expiry", Expiries)}
    \cup {EmptyObj, Str("document"), Arr(<<>>),
          Obj("Steps" :> Null), Obj("Steps" :> Str("steps")),
          Obj("Steps" :> Obj("Expression" :> ValidExpr)),
          Obj("Steps" :> Arr(<<Str("step")>>)),
          Obj("Steps" :> Arr(<<Obj(("Expression" :> ValidExpr)
                                    @@ ("Expiry" :> ValidExpiry)),
                               Null>>))}

----------------------------------------------------------------------------
(* ProficiencyRoutingPayload.model_validate(doc)                           *)

NoResult == [ok |-> FALSE, val |-> None, exc |-> "", errs |-> <<>>]

Init ==
    /\ doc \in Docs
    /\ pc = "ready"
    /\ result = NoResult
    /\ dumped = Null
    /\ again = NoResult
    /\ visited = {}
    /\ calls = <<>>

Validate ==
    /\ pc = "ready"
    /\ result' = ProficiencyRoutingPayload(doc)
    /\ doc' = ProficiencyRoutingPayload_arg(doc)
    /\ pc' = "done"
    /\ UNCHANGED <<dumped, again, calls, visited>>

(* payload.model_dump() on the payload that validation returned.           *)
Dump ==
    /\ pc = "done" /\ result.ok
    /\ dumped' = ProficiencyRoutingPayload_dump(result.val)
    /\ pc' = "dumped"
    /\ UNCHANGED <<doc, result, again, calls, visited>>

(* ProficiencyRoutingPayload.model_validate(payload.model_dump())          *)
Revalidate ==
    /\ pc = "dumped"
    /\ again' = ProficiencyRoutingPayload(dumped)
    /\ dumped' = ProficiencyRoutingPayload_arg(dumped)
    /\ pc' = "revalidated"
    /\ UNCHANGED <<doc, result, calls, visited>>

(* The models declare no frozen configuration and do not validate on       *)
(* assignment, and Steps is a plain list: the holder of a returned payload *)
(* can assign its attributes and delete from its list.                     *)

(* payload.Steps[i].Expiry = None                                          *)
SetExpiry ==
    /\ pc = "done" /\ result.ok
    /\ \E i \in 1..Len(result.val.Steps) :
          result' = [result EXCEPT !.val.Steps[i].Expiry = None]
    /\ pc' = "mutated"
    /\ UNCHANGED <<doc, dumped, again, calls, visited>>

(* payload.Steps[i].Expiry.DurationInSeconds = d                           *)
SetDuration ==
    /\ pc = "done" /\ result.ok
    /\ \E i \in 1..Len(result.val.Steps), d \in {-1, 0, 2} :
          /\ result.val.Steps[i].Expiry # None
          /\ result' =
                [result EXCEPT !.val.Steps[i].Expiry.DurationInSeconds = d]
    /\ pc' = "mutated"
    /\ UNCHANGED <<doc, dumped, again, calls, visited>>

(* del payload.Steps[i]                                                    *)
DelStep ==
    /\ pc = "done" /\ result.ok
    /\ \E i \in 1..Len(result.val.Steps) :
          result' = [result EXCEPT !.val.Steps =
                        SubSeq(@, 1, i - 1) \o SubSeq(@, i + 1, Len(@))]
    /\ pc' = "mutated"
    /\ UNCHANGED <<doc, dumped, again, calls, visited>>

Next ==
    Validate \/ Dump \/ Revalidate \/ SetExpiry \/ SetDuration \/ DelStep

Spec == Init /\ [][Next]_vars

----------------------------------------------------------------------------
(* The contact-flow events handed to validation.                           *)

(* Record f without the keys K.                                            *)
Without(f, K) == [k \in (DOMAIN f) \ K |-> f[k]]

(* The ContactData of the smallest event of the test suite: the fields the *)
(* data model lists as required, and nothing else.                         *)
MinimalData(channel, method) ==
    [Attributes |-> EmptyObj,
     Channel |-> Str(channel),
     ContactId |-> Str("minimal-contact-id"),
     InitialContactId |-> Str("minimal-initial-contact-id"),
     InitiationMethod |-> Str(method),
     InstanceARN |-> Str("arn:aws:connect:instance/minimal"),
     PreviousContactId |-> Str("minimal-previous-contact-id"),
     MediaStreams |-> Obj([Customer |-> Obj([Audio |-> EmptyObj])])]

Region == [AwsRegion |-> Str("us-east-1")]

EventOf(data) ==
    Obj([Details |-> Obj([ContactData |-> Obj(data),
                          Parameters |-> EmptyObj])])

MinimalEvents ==
    {EventOf(MinimalData(c, m)) :
        c \in ConnectContactFlowChannel_values,
        m \in ConnectContactFlowInitiationMethod_values}

EnumEvents ==
    {EventOf(r @@ MinimalData(c, m)) :
        r \in {<<>>, Region},
        c \in ConnectContactFlowChannel_values \cup {"INVALID_CHANNEL"},
        m \in ConnectContactFlowInitiationMethod_values \cup {"INVALID_METHOD"}}

BaseData == Region @@ MinimalData("VOICE", "INBOUND")

MissingFieldEvents ==
    {EventOf(Without(BaseData, K)) :
        K \in {{k} : k \in DOMAIN BaseData}
              \cup {{"AwsRegion", k} : k \in DOMAIN BaseData}
              \cup {{"AwsRegion", "ContactId", "InitialContactId",
                     "PreviousContactId"}}}

Endpoints ==
    {Null, Str("+1234567890"),
     Obj([Address |-> Str("+1234567890"), Type |-> Str("TELEPHONE_NUMBER")]),
     Obj([Address |-> Str("a@example.com"), Type |-> Str("EMAIL_ADDRESS"),
          DisplayName |-> Str("A")]),
     Obj([Address |-> Str("+1234567890"), Type |-> Str("FAX_NUMBER")]),
     Obj([Address |-> Str("+1234567890"), Type |-> Null]),
     Obj([Address |-> Str("+1234567890")]),
     Obj([Type |-> Str("TELEPHONE_NUMBER")])}

Queues ==
    {Null, Obj([ARN |-> Str("arn:queue"), Name |-> Str("BasicQueue")]),
     Obj([ARN |-> Str("arn:queue")]), Obj([Name |-> Str("BasicQueue")])}

ReferenceSets ==
    {Obj("ref" :> Obj(x @@ y)) :
        x \in Opt("Status", {Null, Str("UNKNOWN_STATUS")}
                    \cup {Str(v) : v \in ConnectContactReferenceStatus_values}),
        y \in Opt("Type", {Null, Str("UNKNOWN_TYPE")}
                    \cup {Str(v) : v \in ConnectContactReferenceType_values})}
    \cup {Null, EmptyObj,
          Obj(("a" :> Obj([Status |-> Str("AVAILABLE"), Type |-> Str("URL"),
                           Value |-> Str("https://example.com")]))
              @@ ("b" :> Obj([Type |-> Str("UNKNOWN_TYPE")])))}

OtherOptionals ==
    {[CustomerId |-> Str("customer")], [Description |-> Null],
     [LanguageCode |-> Str("en-US")], [Name |-> Str("contact")],
     [RelatedContactId |-> Str("related")],
     [Tags |-> Obj([team |-> Str("support")])],
     [Tags |-> Obj([team |-> Num(1)])],
     [SegmentAttributes |->
        Obj([ValueString |-> Str("v"), ValueInteger |-> Num(1),
             ValueList |-> Arr(<<Str("a"), Str("b")>>),
             ValueMap |-> Obj([k |-> Str("v")])])],
     [SegmentAttributes |-> Obj([ValueList |-> Arr(<<Str("a"), Num(1)>>)])],
     [AdditionalEmailRecipients |->
        Obj([CcList |-> Arr(<<>>), ToList |-> Arr(<<Str("to@example.com")>>)])],
     [AdditionalEmailRecipients |-> Obj([CcList |-> Arr(<<>>)])],
     [Attributes |-> Obj([language |-> Str("en")])],
     [Attributes |-> Null],
     [MediaStreams |-> Obj([Customer |-> Obj([Audio |->
        Obj([StartFragmentNumber |-> Str("123456789"),
             StartTimestamp |-> Str("2024-01-01T00:00:00.000Z"),
             StreamARN |-> Str("arn:aws:kinesisvideo:stream")])])])],
     [MediaStreams |-> Obj([Customer |-> EmptyObj])],
     [MediaStreams |-> EmptyObj],
     [MediaStreams |-> Obj([Customer |-> Obj([Audio |-> Null])])]}

OptionalFieldEvents ==
    {EventOf(o @@ BaseData) :
        o \in {[CustomerEndpoint |-> e] : e \in Endpoints}
              \cup {[SystemEndpoint |-> e] : e \in Endpoints}
              \cup {[Queue |-> q] : q \in Queues}
              \cup {[References |-> r] : r \in ReferenceSets}
              \cup OtherOptionals}

ShapeEvents ==
    {EmptyObj, Str("event"), Obj([Details |-> Null]),
     Obj([Details |-> EmptyObj]),
     Obj([Details |-> Obj([ContactData |-> Obj(BaseData)])]),
     Obj([Details |-> Obj([Parameters |-> EmptyObj])]),
     Obj([Details |-> Obj([ContactData |-> Obj(BaseData),
                           Parameters |-> Obj([param1 |-> Str("value1")])])]),
     Obj([Details |-> Obj([ContactData |-> Null,
                           Parameters |-> EmptyObj])])}

Events ==
    MinimalEvents \cup EnumEvents \cup MissingFieldEvents
        \cup OptionalFieldEvents \cup ShapeEvents

----------------------------------------------------------------------------
(* Construction of a ConnectContactFlowEvent from the keys of an event.    *)

InitEvent ==
    /\ doc \in Events
    /\ pc = "ready"
    /\ result = NoResult
    /\ dumped = Null
    /\ again = NoResult
    /\ visited = {}
    /\ calls = <<>>

ValidateEvent ==
    /\ pc = "ready"
    /\ result' = ConnectContactFlowEvent(doc)
    /\ pc' = "done"
    /\ UNCHANGED <<doc, dumped, again, calls, visited>>

NextEvent == ValidateEvent

SpecEvent == InitEvent /\ [][NextEvent]_vars

----------------------------------------------------------------------------
(* Concurrent callers of ProficiencyRoutingPayload.model_validate.  Every  *)
(* caller has its own frame: its document, its position in the list of     *)
(* steps, and the items and error lines it has collected so far.  The      *)
(* validators are class methods and a module-level function that read      *)
(* their argument only, so a step of a call reads and writes the frame of  *)
(* that call and nothing else.  The steps of different calls interleave.   *)

NumCallers == 2
Callers == 1..NumCallers

CallDocs ==
    {Obj("Steps" :> Arr(q)) :
        q \in {<<>>,
               <<Obj("Expression" :> ValidExpr)>>,
               <<Obj(("Expression" :> ValidExpr) @@ ("Expiry" :> ValidExpiry)),
                 Obj("Expression" :> ValidExpr)>>,
               <<Obj("Expression" :> ValidExpr),
                 Obj(("Expression" :> ValidExpr) @@ ("Expiry" :> ValidExpiry))>>,
               <<Obj("Expression" :> UnknownExpr), Str("step")>>,
               <<Obj(("Expression" :> ValidExpr) @@ ("Expiry" :> ValidExpiry)),
                 Obj("Expression" :> Obj("AndExpression" :> Arr(<<>>)))>>}}
    \cup {EmptyObj, Str("document"), Obj("Steps" :> Null)}

Frame(d) ==
    [doc |-> d, pc |-> "ready", i |-> 1, vals |-> <<>>, errs |-> <<>>,
     result |-> NoResult]

InitConcurrent ==
    /\ calls \in [Callers -> {Frame(d) : d \in CallDocs}]
    /\ doc = Null
    /\ pc = "idle"
    /\ result = NoResult
    /\ dumped = Null
    /\ again = NoResult
    /\ visited = {}

Return(f, r) == [f EXCEPT !.pc = "done", !.result = r]

(* The call is entered: the input and its Steps field are looked at.       *)
Begin(c) ==
    /\ calls[c].pc = "ready"
    /\ calls' = [calls EXCEPT ![c] =
          IF ~IsObj(@.doc) THEN Return(@, TypeError(MsgModelType))
          ELSE IF ~Has(@.doc, "Steps")
          THEN Return(@, ProficiencyRoutingPayload_fields(
                            TypeError(MsgMissing)))
          ELSE IF ~IsArr(Get(@.doc, "Steps"))
          THEN Return(@, ProficiencyRoutingPayload_fields(
                            TypeError(MsgListType)))
          ELSE [@ EXCEPT !.pc = "items"]]
    /\ UNCHANGED <<doc, pc, result, dumped, again, visited>>

(* The frame after the item at its position has been validated with        *)
(* outcome r.                                                              *)
Advance(f, r) ==
    [f EXCEPT !.i = @ + 1,
              !.vals = IF r.ok THEN Append(@, r.val) ELSE @,
              !.errs = @ \o FieldErrs(ToString(f.i - 1), r)]

StepItem(f) ==
    IF IsObj(Get(f.doc, "Steps").a[f.i]) THEN Step(Get(f.doc, "Steps").a[f.i])
    ELSE TypeError(MsgModelType)

(* A validator that keeps the collected items in one list of the class:    *)
(* every call in progress sees the item appended.                          *)
StepCall_SharedItems(c) ==
    /\ calls[c].pc = "items"
    /\ calls[c].i <= Len(Get(calls[c].doc, "Steps").a)
    /\ calls' = [d \in Callers |->
          IF d = c THEN Advance(calls[c], StepItem(calls[c]))
          ELSE IF calls[d].pc = "items" /\ StepItem(calls[c]).ok
          THEN [calls[d] EXCEPT
                    !.vals = Append(@, StepItem(calls[c]).val)]
          ELSE calls[d]]
    /\ UNCHANGED <<doc, pc, result, dumped, again, visited>>

(* The next item of Steps is validated as a Step.                          *)
StepCall(c) ==
    /\ calls[c].pc = "items"
    /\ calls[c].i <= Len(Get(calls[c].doc, "Steps").a)
    /\ calls' = [calls EXCEPT ![c] = Advance(@, StepItem(@))]
    /\ UNCHANGED <<doc, pc, result, dumped, again, visited>>

(* The list is complete: its constraints and validators run, then the      *)
(* model's, and the call returns or raises.                                *)
Finish(c) ==
    /\ calls[c].pc = "items"
    /\ calls[c].i > Len(Get(calls[c].doc, "Steps").a)
    /\ calls' = [calls EXCEPT ![c] =
          Return(@, ProficiencyRoutingPayload_fields(
                        Steps_min_length(
                            IF @.errs # <<>> THEN RaiseValidationError(@.errs)
                            ELSE Ok(@.vals))))]
    /\ UNCHANGED <<doc, pc, result, dumped, again, visited>>

NextConcurrent == \E c \in Callers : Begin(c) \/ StepCall(c) \/ Finish(c)

SpecConcurrent == InitConcurrent /\ [][NextConcurrent]_vars

----------------------------------------------------------------------------
(* Reading the input document: the places of a document that hold steps,   *)
(* expressions, operands and attribute conditions.                         *)

Elems(q) == {q[i] : i \in DOMAIN q}

(* Key k is set: present with a value other than null.                     *)
IsSet(o, k) == Has(o, k) /\ Get(o, k) # Null

DiscriminatorKeys ==
    {"AttributeCondition", "NotAttributeCondition",
     "AndExpression", "OrExpression"}
CompoundKeys == {"AndExpression", "OrExpression"}

StepsOf(d) ==
    IF IsObj(d) /\ Has(d, "Steps") /\ IsArr(Get(d, "Steps"))
    THEN Get(d, "Steps").a ELSE <<>>

StepExprs(d) ==
    {Get(s, "Expression") :
        s \in {x \in Elems(StepsOf(d)) : IsObj(x) /\ Has(x, "Expression")}}

(* The variant an expression value is read as.                             *)
NodeKind(e) ==
    IF ~IsObj(e) THEN "nonobject"
    ELSE IF Has(e, "AttributeCondition") THEN "attribute"
    ELSE IF Has(e, "NotAttributeCondition") THEN "not_attribute"
    ELSE IF Has(e, "AndExpression") \/ Has(e, "OrExpression") THEN "compound"
    ELSE "unknown"

OperandsOf(e) ==
    IF NodeKind(e) # "compound" THEN {}
    ELSE UNION {Elems(Get(e, k).a) :
                    k \in {x \in CompoundKeys : Has(e, x) /\ IsArr(Get(e, x))}}

RECURSIVE NodesUnder(_)
NodesUnder(e) == {e} \cup UNION {NodesUnder(x) : x \in OperandsOf(e)}

(* Every expression value of the document: step expressions and the        *)
(* operands of compound nodes, at every depth.                             *)
ExprNodes(d) == UNION {NodesUnder(e) : e \in StepExprs(d)}
OperandNodes(d) == UNION {OperandsOf(n) : n \in ExprNodes(d)}

LeafConds(d) ==
    {Get(n, "AttributeCondition") :
        n \in {x \in ExprNodes(d) : NodeKind(x) = "attribute"}}
    \cup {Get(n, "NotAttributeCondition") :
        n \in {x \in ExprNodes(d) : NodeKind(x) = "not_attribute"}}

RECURSIVE Mentions(_, _)
(* Message m appears in the text of the error lines errs.                  *)
Mentions(errs, m) ==
    \E i \in DOMAIN errs : errs[i].msg = m \/ Mentions(errs[i].ctx, m)

(* The grammar of the data model, read off the input document.             *)
OrderedRange(r) ==
    /\ IsObj(r)
    /\ Has(r, "MinProficiencyLevel") /\ IsNum(Get(r, "MinProficiencyLevel"))
    /\ Has(r, "MaxProficiencyLevel") /\ IsNum(Get(r, "MaxProficiencyLevel"))
    /\ Get(r, "MinProficiencyLevel").n <= Get(r, "MaxProficiencyLevel").n

Coupled(c) ==
    /\ IsObj(c)
    /\ Has(c, "ComparisonOperator")
    /\ \/ /\ Get(c, "ComparisonOperator") = Str("Range")
          /\ IsSet(c, "Range") /\ ~IsSet(c, "ProficiencyLevel")
       \/ /\ Get(c, "ComparisonOperator") = Str("NumberGreaterOrEqualTo")
          /\ IsSet(c, "ProficiencyLevel") /\ ~IsSet(c, "Range")

ConformingCond(c) ==
    /\ IsObj(c)
    /\ Has(c, "Name") /\ IsStr(Get(c, "Name"))
    /\ Has(c, "Value") /\ IsStr(Get(c, "Value"))
    /\ Coupled(c)
    /\ IsSet(c, "ProficiencyLevel") => IsNum(Get(c, "ProficiencyLevel"))
    /\ IsSet(c, "Range") => OrderedRange(Get(c, "Range"))

SingleCompound(n) ==
    /\ Cardinality({k \in CompoundKeys : IsSet(n, k)}) = 1
    /\ \A k \in CompoundKeys :
         IsSet(n, k) => IsArr(Get(n, k)) /\ Len(Get(n, k).a) >= 1

RECURSIVE ConformingExpr(_)
ConformingExpr(e) ==
    /\ IsObj(e)
    /\ Cardinality({k \in DiscriminatorKeys : IsSet(e, k)}) = 1
    /\ IsSet(e, "AttributeCondition")
         => ConformingCond(Get(e, "AttributeCondition"))
    /\ IsSet(e, "NotAttributeCondition")
         => ConformingCond(Get(e, "NotAttributeCondition"))
    /\ \A k \in CompoundKeys :
         IsSet(e, k) => /\ IsArr(Get(e, k)) /\ Len(Get(e, k).a) >= 1
                        /\ \A x \in Elems(Get(e, k).a) : ConformingExpr(x)

ConformingExpiry(x) ==
    /\ IsObj(x)
    /\ Has(x, "DurationInSeconds") /\ IsNum(Get(x, "DurationInSeconds"))
    /\ Get(x, "DurationInSeconds").n > 0

ConformingStep(s) ==
    /\ IsObj(s)
    /\ Has(s, "Expression") /\ ConformingExpr(Get(s, "Expression"))
    /\ IsSet(s, "Expiry") => ConformingExpiry(Get(s, "Expiry"))

Conforming(d) ==
    /\ IsObj(d) /\ Has(d, "Steps") /\ IsArr(Get(d, "Steps"))
    /\ Len(StepsOf(d)) >= 1
    /\ \A i \in 1..Len(StepsOf(d)) : ConformingStep(StepsOf(d)[i])
    /\ \A i \in 1..(Len(StepsOf(d)) - 1) : IsSet(StepsOf(d)[i], "Expiry")

----------------------------------------------------------------------------
(* The recursion of one validation, call by call.  calls is the stack of   *)
(* the calls in progress: at the bottom the validation of the items of     *)
(* Steps, above it parse_expression for a step's Expression, above that    *)
(* parse_expression_item for the operands that parse_and / parse_or hand   *)
(* over one after the other.  A frame holds the value it was called with,  *)
(* the path of that value in the document, the position i in its list, and *)
(* what its calls have returned so far (for Steps: the steps and the error *)
(* lines collected).  visited is the set of paths a call was made for.     *)

WalkDocs ==
    {Obj("Steps" :> Arr(<<Obj("Expression" :> e)>>)) : e \in Pool(MaxDepth)}
    \cup {Obj("Steps" :> Arr(q)) :
            q \in SeqsUpTo({Obj("Expression" :> ValidExpr),
                            Obj(("Expression" :> ValidExpr)
                                    @@ ("Expiry" :> ValidExpiry)),
                            Obj("Expression" :>
                                Obj("OrExpression" :>
                                    Arr(<<ValidExpr, EmptyObj, ValidExpr>>))),
                            Obj("Expiry" :> ValidExpiry),
                            Str("step")}, MaxSteps)}
    \cup {EmptyObj, Str("document"), Obj("Steps" :> Null)}

WalkFrame(kind, path, v) ==
    [kind |-> kind, path |-> path, v |-> v, i |-> 1,
     vals |-> <<>>, errs |-> <<>>]

Top == calls[Len(calls)]

(* The element of a set of one element: a value that is worked out once    *)
(* and then used under a name, as an assignment to a local variable is.    *)
The(S) == CHOOSE x \in S : TRUE

(* The key of compound node v whose list is iterated: the one that is set. *)
SetKey(v) == CHOOSE k \in CompoundKeys : IsSet(v, k)

(* The list a call goes through: the items of Steps; the operands of a     *)
(* compound node that passed ensure_single_key and holds a list; nothing   *)
(* for any other expression.                                               *)
Items(f) ==
    IF f.kind = "steps" THEN f.v.a
    ELSE IF /\ NodeKind(f.v) = "compound"
            /\ ensure_single_key(f.v).ok
            /\ IsArr(Get(f.v, SetKey(f.v)))
    THEN Get(f.v, SetKey(f.v)).a
    ELSE <<>>

(* The item at position j of frame f takes a call: every operand does, and *)
(* every step that is an object with an Expression.                        *)
TakesCall(f, j) ==
    f.kind = "steps" => IsObj(Items(f)[j]) /\ Has(Items(f)[j], "Expression")

(* The frame of the call made for position j of frame f.                   *)
CallAt(f, j) ==
    IF f.kind = "steps"
    THEN WalkFrame("expression", <<"Steps", ToString(j - 1), "Expression">>,
                   Get(Items(f)[j], "Expression"))
    ELSE WalkFrame("item", f.path \o <<SetKey(f.v), ToString(j - 1)>>,
                   Items(f)[j])

(* The call of frame f, whose own calls have all returned, returns a model *)
(* (TRUE) or raises (FALSE): a leaf by the validation of its condition, a  *)
(* compound node by ensure_single_key and the list checks of parse_and /   *)
(* parse_or, anything else raises.                                         *)
Returns(f) ==
    IF ~IsObj(f.v) THEN FALSE
    ELSE IF Has(f.v, "AttributeCondition") THEN AttributeConditionExpr(f.v).ok
    ELSE IF Has(f.v, "NotAttributeCondition")
         THEN NotAttributeConditionExpr(f.v).ok
    ELSE IF Has(f.v, "AndExpression") \/ Has(f.v, "OrExpression")
         THEN /\ ensure_single_key(f.v).ok
              /\ IsArr(Get(f.v, SetKey(f.v)))
              /\ Len(Get(f.v, SetKey(f.v)).a) > 0
    ELSE FALSE

(* A CompoundExpr whose list under key k validated to r, the other key     *)
(* being unset.                                                            *)
CompoundOf(k, r) ==
    CompoundExpr_fields(IF k = "AndExpression" THEN r ELSE Ok(None),
                        IF k = "OrExpression" THEN r ELSE Ok(None))

(* What the call of frame f returns: a leaf its model; a compound node the *)
(* model that holds the list of what its calls returned.                   *)
Returned(f) ==
    IF NodeKind(f.v) = "compound"
    THEN CompoundOf(SetKey(f.v), Ok(List(f.vals)))
    ELSE parse_expression_item(f.v)

(* What the call of frame f raises by itself, none of its calls having     *)
(* raised.                                                                 *)
Raised(f) ==
    IF f.kind = "expression" THEN parse_expression(f.v)
    ELSE parse_expression_item(f.v)

RECURSIVE Unwind(_, _, _)
(* The exception r, raised by the call of frame k + 1 of stack st, as it   *)
(* leaves the call of frame 2: every caller on the way is in the           *)
(* comprehension of parse_and or parse_or, which lets it pass, and its     *)
(* CompoundExpr fails with the line of that field.                         *)
Unwind(st, k, r) ==
    IF k = 1 THEN r
    ELSE The({Unwind(st, k - 1, w) :
                w \in {CompoundOf(SetKey(st[k].v), FromValidator(r))}})

(* Frame f of Steps after the step at its position got the Expression      *)
(* outcome e.                                                              *)
StepDone(f, e) ==
    The({Advance(f, r) :
            r \in {Step_fields(e, x) : x \in {Step_Expiry(Items(f)[f.i])}}})

InitWalk ==
    /\ doc \in WalkDocs
    /\ pc = "ready"
    /\ result = NoResult
    /\ dumped = Null
    /\ again = NoResult
    /\ calls = <<>>
    /\ visited = {}

(* model_validate(doc): a document without a list of Steps is rejected at  *)
(* once, else the items of Steps are gone through.                         *)
WalkBegin ==
    /\ pc = "ready"
    /\ IF IsObj(doc) /\ Has(doc, "Steps") /\ IsArr(Get(doc, "Steps"))
       THEN /\ calls' = <<WalkFrame("steps", <<"Steps">>, Get(doc, "Steps"))>>
            /\ pc' = "walking"
            /\ UNCHANGED result
       ELSE /\ result' = ProficiencyRoutingPayload(doc)
            /\ pc' = "done"
            /\ UNCHANGED calls
    /\ UNCHANGED <<doc, dumped, again, visited>>

(* An item of Steps that is no object, or has no Expression, fails without *)
(* a call of parse_expression.                                             *)
WalkItem ==
    /\ pc = "walking"
    /\ Len(calls) = 1
    /\ Top.i <= Len(Items(Top))
    /\ ~TakesCall(Top, Top.i)
    /\ \E r \in {IF IsObj(Items(Top)[Top.i]) THEN Step(Items(Top)[Top.i])
                 ELSE TypeError(MsgModelType)} :
          calls' = <<Advance(Top, r)>>
    /\ UNCHANGED <<doc, pc, result, dumped, again, visited>>

(* A caller that hands over the item before the one it has reached.        *)
WalkCall_Previous ==
    /\ pc = "walking"
    /\ Top.i <= Len(Items(Top))
    /\ TakesCall(Top, Top.i)
    /\ calls' = Append(calls,
                    CallAt(Top, IF Top.i > 1 /\ TakesCall(Top, Top.i - 1)
                                THEN Top.i - 1 ELSE Top.i))
    /\ visited' = visited \cup {calls'[Len(calls')].path}
    /\ UNCHANGED <<doc, pc, result, dumped, again>>

(* The call in progress makes its next call, for the item it has reached.  *)
WalkCall ==
    /\ pc = "walking"
    /\ Top.i <= Len(Items(Top))
    /\ TakesCall(Top, Top.i)
    /\ calls' = Append(calls, CallAt(Top, Top.i))
    /\ visited' = visited \cup {CallAt(Top, Top.i).path}
    /\ UNCHANGED <<doc, pc, result, dumped, again>>

(* The call in progress has gone through its list and returns its model:   *)
(* the caller keeps it and moves on to its next item.                      *)
WalkReturn ==
    /\ pc = "walking"
    /\ Len(calls) > 1
    /\ Top.i > Len(Items(Top))
    /\ Returns(Top)
    /\ \E m \in {Returned(Top).val} :
          calls' =
            [SubSeq(calls, 1, Len(calls) - 1) EXCEPT ![Len(calls) - 1] =
                IF @.kind = "steps" THEN StepDone(@, Ok(m))
                ELSE [@ EXCEPT !.i = @ + 1, !.vals = Append(@, m)]]
    /\ UNCHANGED <<doc, pc, result, dumped, again, visited>>

(* The call in progress raises: the exception leaves every comprehension   *)
(* and model construction above it, and the validator of the step's        *)
(* Expression; its lines are recorded for the step, and the next item of   *)
(* Steps is validated.                                                     *)
WalkRaise ==
    /\ pc = "walking"
    /\ Len(calls) > 1
    /\ Top.i > Len(Items(Top))
    /\ ~Returns(Top)
    /\ \E raised \in {Raised(Top)} :
          \E r \in {Unwind(calls, Len(calls) - 1, raised)} :
              calls' = <<StepDone(calls[1], FromValidator(r))>>
    /\ UNCHANGED <<doc, pc, result, dumped, again, visited>>

(* Every item of Steps has been validated: the constraints and validators  *)
(* of the list run, then the model's, and the call returns or raises.      *)
WalkFinish ==
    /\ pc = "walking"
    /\ Len(calls) = 1
    /\ Top.i > Len(Items(Top))
    /\ result' = ProficiencyRoutingPayload_fields(
                    Steps_min_length(
                        IF Top.errs # <<>> THEN RaiseValidationError(Top.errs)
                        ELSE Ok(Top.vals)))
    /\ calls' = <<>>
    /\ pc' = "done"
    /\ UNCHANGED <<doc, dumped, again, visited>>

NextWalk ==
    WalkBegin \/ WalkItem \/ WalkCall \/ WalkReturn \/ WalkRaise \/ WalkFinish

(* A call in progress is not suspended: Python runs it to its end.         *)
SpecWalk == InitWalk /\ [][NextWalk]_vars /\ WF_vars(NextWalk)

----------------------------------------------------------------------------
(* Properties                                                              *)

Done == pc = "done"
Accepted == Done /\ result.ok
Rejected == Done /\ ~result.ok

IndividuallyValid(d) ==
    /\ Len(StepsOf(d)) >= 1
    /\ \A i \in 1..Len(StepsOf(d)) :
         IsObj(StepsOf(d)[i]) /\ Step(StepsOf(d)[i]).ok

(* Document d with the Expiry key of its last step removed (x = <<>>) or   *)
(* replaced by the fragment x.                                             *)
WithLastExpiry(d, x) ==
    LET s == StepsOf(d)
        last == s[Len(s)]
        kept == [k \in (DOMAIN last.o) \ {"Expiry"} |-> last.o[k]]
    IN  Obj(("Steps" :> Arr([s EXCEPT ![Len(s)] = Obj(x @@ kept)])) @@ d.o)

(* C1: Expiry completeness.  For a payload whose steps are each            *)
(* individually valid: with N >= 2 steps it is rejected whenever a step at *)
(* position 0..N-2 has no Expiry (absent or null); the Expiry of the last  *)
(* step never changes the outcome; a one-step payload is accepted with and *)
(* without Expiry.                                                         *)
C1_ExpiryCompleteness ==
    (Done /\ IndividuallyValid(doc)) =>
        LET s == StepsOf(doc)
            N == Len(s)
        IN  /\ (N >= 2 /\ \E i \in 1..(N - 1) : ~IsSet(s[i], "Expiry"))
                  => ~result.ok
            /\ \A x \in Opt("Expiry", {Null, ValidExpiry}) :
                  ProficiencyRoutingPayload(WithLastExpiry(doc, x)).ok
                      = result.ok
            /\ N = 1 => result.ok

C1_Witness ==
    /\ Rejected /\ IndividuallyValid(doc)
    /\ Len(StepsOf(doc)) = 3
    /\ IsSet(StepsOf(doc)[1], "Expiry")
    /\ Has(StepsOf(doc)[2], "Expiry") /\ ~IsSet(StepsOf(doc)[2], "Expiry")
    /\ IsSet(StepsOf(doc)[3], "Expiry")

(* C2: Operator/field coupling.  In an accepted payload every attribute    *)
(* condition, under AttributeCondition or NotAttributeCondition and at any *)
(* depth, has exactly one of ProficiencyLevel and Range set, the one its   *)
(* ComparisonOperator selects: a missing required field and a present      *)
(* forbidden field, for either operator, each cause rejection.             *)
C2_OperatorFieldCoupling ==
    Accepted => \A c \in LeafConds(doc) : Coupled(c)

C2_Witness ==
    /\ Rejected
    /\ Obj("AttributeCondition" :> BothSetCond) \in OperandNodes(doc)
    /\ \A c \in LeafConds(doc) : c # BothSetCond => ConformingCond(c)

(* C3: Compound expression validity.  In an accepted payload every         *)
(* compound node has exactly one of AndExpression / OrExpression set and   *)
(* that one is a non-empty array: both set, neither set and an empty array *)
(* are each rejected.                                                      *)
C3_CompoundValidity ==
    Accepted =>
        \A n \in ExprNodes(doc) : NodeKind(n) = "compound" => SingleCompound(n)

C3_Witness ==
    /\ Rejected
    /\ \E n \in ExprNodes(doc) :
          /\ NodeKind(n) = "compound"
          /\ IsSet(n, "AndExpression") /\ IsSet(n, "OrExpression")
          /\ \A k \in CompoundKeys :
                IsArr(Get(n, k)) /\ Len(Get(n, k).a) >= 1

(* C4: Exactly one discriminator.  In an accepted payload every expression *)
(* object (a step's Expression or an operand of a compound node) carries   *)
(* exactly one of the four discriminator keys.                             *)
C4_ExactlyOneDiscriminator ==
    Accepted =>
        \A n \in ExprNodes(doc) :
            /\ IsObj(n)
            /\ Cardinality({k \in DiscriminatorKeys : IsSet(n, k)}) = 1

(* C5: Range ordering.  A range is accepted if and only if its minimum is  *)
(* at most its maximum: no accepted payload holds a range with min > max,  *)
(* and a payload whose single step is a Range condition with nothing else  *)
(* to object to is accepted exactly when min <= max (min = max included).  *)
RangeOnlyDocs ==
    {Obj("Steps" :> Arr(<<Obj("Expression" :> Obj(k :>
        Obj([Name |-> Str("Language"), Value |-> Str("English"),
             ComparisonOperator |-> Str("Range"), Range |-> r])))>>)) :
        k \in {"AttributeCondition", "NotAttributeCondition"},
        r \in RangeObjs}

RangesOf(d) ==
    {Get(c, "Range") :
        c \in {x \in LeafConds(d) : IsObj(x) /\ IsSet(x, "Range")}}

C5_RangeOrdering ==
    /\ Accepted => \A r \in RangesOf(doc) : OrderedRange(r)
    /\ (Done /\ doc \in RangeOnlyDocs)
          => (result.ok <=> \A r \in RangesOf(doc) : OrderedRange(r))

C5_Witness ==
    /\ Accepted /\ doc \in RangeOnlyDocs
    /\ \E r \in RangesOf(doc) :
          Get(r, "MinProficiencyLevel") = Get(r, "MaxProficiencyLevel")

(* C6: No false accepts.  Every accepted document satisfies every rule of  *)
(* the data model at every nesting depth.                                  *)
C6_NoFalseAccepts ==
    Accepted => Conforming(doc)

(* C7: Recursive validation of operands.  In an accepted payload every     *)
(* element of every operand array, at any depth, is an object with a known *)
(* discriminator and, if a leaf, a valid condition; and the accepted tree  *)
(* holds one node per element of a step's operand array.                   *)
C7_OperandsValidated ==
    Accepted =>
        /\ \A x \in OperandNodes(doc) :
              /\ NodeKind(x) \in {"attribute", "not_attribute", "compound"}
              /\ NodeKind(x) = "attribute"
                    => ConformingCond(Get(x, "AttributeCondition"))
              /\ NodeKind(x) = "not_attribute"
                    => ConformingCond(Get(x, "NotAttributeCondition"))
        /\ \A i \in 1..Len(StepsOf(doc)) :
              LET e == Get(StepsOf(doc)[i], "Expression")
                  node == result.val.Steps[i].Expression
              IN  NodeKind(e) = "compound" =>
                    /\ IsSet(e, "AndExpression") =>
                          Len(node.AndExpression.items)
                              = Len(Get(e, "AndExpression").a)
                    /\ IsSet(e, "OrExpression") =>
                          Len(node.OrExpression.items)
                              = Len(Get(e, "OrExpression").a)

C7_Witness ==
    /\ Rejected
    /\ \E n \in OperandNodes(doc) :
          /\ NodeKind(n) = "compound"
          /\ Str("not_a_valid_expression") \in OperandsOf(n)
          /\ \A x \in OperandsOf(n) :
                x # Str("not_a_valid_expression") => ConformingExpr(x)

(* C8: Unknown discriminator.  An expression object with none of the four  *)
(* discriminator keys is rejected with an unknown-discriminator error, as  *)
(* a step's Expression and as an operand of a compound node.               *)
MsgInvalidExpression == "Invalid Expression value"
MsgUnknownItem == "Unknown expression type in item"

C8_UnknownDiscriminator ==
    Done =>
        /\ (\E n \in ExprNodes(doc) : NodeKind(n) = "unknown") => ~result.ok
        /\ \A i \in 1..Len(StepsOf(doc)) :
              LET s == StepsOf(doc)[i]
                  e == Get(s, "Expression")
                  at == <<"Steps", ToString(i - 1), "Expression">>
              IN  (IsObj(s) /\ Has(s, "Expression")) =>
                    /\ NodeKind(e) = "unknown" =>
                          \E j \in DOMAIN result.errs :
                              /\ result.errs[j].loc = at
                              /\ result.errs[j].msg = MsgInvalidExpression
                    /\ \A k \in CompoundKeys :
                          ( /\ NodeKind(e) = "compound"
                            /\ IsSet(e, k) /\ IsArr(Get(e, k))
                            /\ \A k2 \in CompoundKeys \ {k} : ~IsSet(e, k2)
                            /\ \E j \in DOMAIN Get(e, k).a :
                                  /\ NodeKind(Get(e, k).a[j]) = "unknown"
                                  /\ \A h \in 1..(j - 1) :
                                        ConformingExpr(Get(e, k).a[h]) )
                          => \E j \in DOMAIN result.errs :
                                /\ result.errs[j].loc = at
                                /\ \E h \in DOMAIN result.errs[j].ctx :
                                      /\ result.errs[j].ctx[h].loc = <<k>>
                                      /\ result.errs[j].ctx[h].msg
                                            = MsgUnknownItem

C8_Witness ==
    /\ Rejected
    /\ Len(StepsOf(doc)) = 1
    /\ \E e \in StepExprs(doc) :
          /\ NodeKind(e) = "compound"
          /\ UnknownExpr \in OperandsOf(e)
    /\ Mentions(result.errs, MsgUnknownItem)

(* C9: Top-level Steps.  A document is rejected when the Steps key is      *)
(* absent, when Steps is not an array and when Steps is an empty array;    *)
(* every accepted payload has at least one step.                           *)
C9_TopLevelSteps ==
    Done =>
        /\ (IsObj(doc) /\ ~Has(doc, "Steps")) => ~result.ok
        /\ (IsObj(doc) /\ Has(doc, "Steps") /\ ~IsArr(Get(doc, "Steps")))
              => ~result.ok
        /\ (IsObj(doc) /\ Has(doc, "Steps") /\ Get(doc, "Steps") = Arr(<<>>))
              => ~result.ok
        /\ result.ok => Len(result.val.Steps) >= 1

C9_Witness ==
    Rejected /\ doc = EmptyObj

(* C10: Step shape.  A step with no Expression key, with an Expression     *)
(* that is not an object, or with an Expiry that is present, non-null and  *)
(* not an object is rejected.                                              *)
C10_StepShape ==
    Accepted =>
        \A i \in 1..Len(StepsOf(doc)) :
            LET s == StepsOf(doc)[i]
            IN  /\ IsObj(s)
                /\ Has(s, "Expression") /\ IsObj(Get(s, "Expression"))
                /\ IsSet(s, "Expiry") => IsObj(Get(s, "Expiry"))

C10_Witness ==
    /\ Rejected
    /\ \E i \in 1..Len(StepsOf(doc)) :
          /\ IsObj(StepsOf(doc)[i])
          /\ Has(StepsOf(doc)[i], "Expression")
          /\ ConformingExpr(Get(StepsOf(doc)[i], "Expression"))
          /\ IsSet(StepsOf(doc)[i], "Expiry")
          /\ IsStr(Get(StepsOf(doc)[i], "Expiry"))
    /\ \A i \in 1..Len(StepsOf(doc)) :
          /\ ConformingExpr(Get(StepsOf(doc)[i], "Expression"))
          /\ IsSet(StepsOf(doc)[i], "Expiry")

(* C11: Leaf required fields and operator enum.  In an accepted payload     *)
(* every attribute condition has Name, Value and ComparisonOperator, and    *)
(* its ComparisonOperator is one of the two literals Range and              *)
(* NumberGreaterOrEqualTo; a payload whose single step is one conforming    *)
(* condition, with either literal, is accepted.                             *)
SingleLeafDoc(d) ==
    /\ Len(StepsOf(d)) = 1
    /\ IsObj(StepsOf(d)[1])
    /\ DOMAIN StepsOf(d)[1].o = {"Expression"}
    /\ IsObj(Get(StepsOf(d)[1], "Expression"))
    /\ \E k \in {"AttributeCondition", "NotAttributeCondition"} :
          DOMAIN Get(StepsOf(d)[1], "Expression").o = {k}

C11_LeafRequiredFields ==
    /\ Accepted =>
          \A c \in LeafConds(doc) :
              /\ IsObj(c)
              /\ Has(c, "Name") /\ Has(c, "Value")
              /\ Has(c, "ComparisonOperator")
              /\ IsStr(Get(c, "ComparisonOperator"))
              /\ Get(c, "ComparisonOperator").s \in ComparisonOperators
    /\ (Done /\ SingleLeafDoc(doc)
              /\ \A c \in LeafConds(doc) : ConformingCond(c))
          => result.ok

C11_Witness ==
    /\ Rejected /\ SingleLeafDoc(doc)
    /\ \E c \in LeafConds(doc) :
          /\ IsObj(c) /\ Has(c, "Name") /\ Has(c, "Value")
          /\ Has(c, "ComparisonOperator")
          /\ Get(c, "ComparisonOperator") = Str("Equals")
          /\ IsSet(c, "ProficiencyLevel") /\ ~Has(c, "Range")
    /\ Mentions(result.errs, MsgLiteral)

(* C12: Positive expiry duration.  In an accepted payload every Expiry     *)
(* that is set, on the last step and on every other step, is an object     *)
(* whose DurationInSeconds is an integer greater than 0, and the tree      *)
(* holds that integer: a duration of 0 and a negative duration are         *)
(* rejected at every position.                                             *)
C12_PositiveDuration ==
    Accepted =>
        \A i \in 1..Len(StepsOf(doc)) :
            IsSet(StepsOf(doc)[i], "Expiry") =>
                /\ ConformingExpiry(Get(StepsOf(doc)[i], "Expiry"))
                /\ result.val.Steps[i].Expiry.DurationInSeconds
                        = Get(Get(StepsOf(doc)[i], "Expiry"),
                              "DurationInSeconds").n
                /\ result.val.Steps[i].Expiry.DurationInSeconds > 0

C12_Witness ==
    /\ Rejected
    /\ Len(StepsOf(doc)) = 3
    /\ \A i \in 1..3 :
          /\ IsObj(StepsOf(doc)[i])
          /\ Has(StepsOf(doc)[i], "Expression")
          /\ ConformingExpr(Get(StepsOf(doc)[i], "Expression"))
    /\ Has(StepsOf(doc)[1], "Expiry")
    /\ Get(StepsOf(doc)[1], "Expiry") = Obj([DurationInSeconds |-> Num(0)])
    /\ Has(StepsOf(doc)[2], "Expiry")
    /\ Get(StepsOf(doc)[2], "Expiry") = Obj([DurationInSeconds |-> Num(-1)])
    /\ Has(StepsOf(doc)[3], "Expiry")
    /\ Get(StepsOf(doc)[3], "Expiry") = ValidExpiry
    /\ Mentions(result.errs, MsgGreaterThan)

(* C13: Round trip.  For every accepted document, the dump of the tree     *)
(* (every declared field present, unset optional fields as null) is        *)
(* accepted when validated again and yields a tree equal to the first,     *)
(* compound nodes and nested operands included.                            *)
C13_RoundTrip ==
    pc = "revalidated" =>
        /\ again.ok
        /\ again.val = result.val
        /\ \A i \in 1..Len(StepsOf(doc)) :
              ~IsSet(StepsOf(doc)[i], "Expiry")
                  => Get(StepsOf(dumped)[i], "Expiry") = Null

C13_Witness ==
    /\ pc = "revalidated" /\ again.ok
    /\ dumped # doc
    /\ \E e \in StepExprs(dumped) :
          /\ NodeKind(e) = "compound"
          /\ Get(e, "AndExpression") = Null
          /\ \E x \in OperandsOf(e) :
                /\ NodeKind(x) = "compound"
                /\ Get(x, "OrExpression") = Null
                /\ \E y \in OperandsOf(x) : NodeKind(y) = "not_attribute"

(* C14: Determinism.  Validation is the operator ProficiencyRoutingPayload *)
(* of its argument alone: a second validation of the same document is the  *)
(* same expression, so its agreement with the first is no property of the  *)
(* model that a check could refute.                                        *)

(* C15: All-or-nothing result.  A failed validation gives the caller a     *)
(* ValidationError with at least one line and no payload object; a         *)
(* successful one gives a payload with one step per step of the document   *)
(* and no error: never a tree of the steps that were valid before a        *)
(* failing one.                                                            *)
C15_AllOrNothing ==
    Done =>
        /\ ~result.ok =>
              /\ result.val = None
              /\ result.exc = "ValidationError"
              /\ result.errs # <<>>
        /\ result.ok =>
              /\ result.exc = "" /\ result.errs = <<>>
              /\ result.val.t = "ProficiencyRoutingPayload"
              /\ Len(result.val.Steps) = Len(StepsOf(doc))

C15_Witness ==
    /\ Rejected /\ result.val = None
    /\ Len(StepsOf(doc)) = 3
    /\ \A i \in 1..2 : ConformingStep(StepsOf(doc)[i])
                            /\ IsSet(StepsOf(doc)[i], "Expiry")
    /\ IsObj(StepsOf(doc)[3])
    /\ Has(StepsOf(doc)[3], "Expression")
    /\ Get(StepsOf(doc)[3], "Expression") = UnknownExpr

(* C16: Immutability after construction.  What validation established for  *)
(* the returned payload (at least one step, an Expiry on every step but    *)
(* the last, positive durations) holds of the payload in every later       *)
(* state, and no step changes a payload that has been returned.            *)
PayloadInvariant(p) ==
    /\ Len(p.Steps) >= 1
    /\ \A i \in 1..(Len(p.Steps) - 1) : p.Steps[i].Expiry # None
    /\ \A i \in 1..Len(p.Steps) :
          p.Steps[i].Expiry # None
              => p.Steps[i].Expiry.DurationInSeconds > 0

C16_InvariantsKept ==
    (pc \in {"done", "dumped", "revalidated", "mutated"} /\ result.ok)
        => PayloadInvariant(result.val)

----------------------------------------------------------------------------
(* Properties of contact-flow events (specification SpecEvent)             *)

(* The ContactData of event d, where d has one.                            *)
HasData(d) ==
    /\ IsObj(d) /\ Has(d, "Details") /\ IsObj(Get(d, "Details"))
    /\ Has(Get(d, "Details"), "ContactData")
    /\ IsObj(Get(Get(d, "Details"), "ContactData"))
DataOf(d) == Get(Get(d, "Details"), "ContactData")

(* C17: Minimal contact-flow event.  An event with Parameters and exactly  *)
(* the ContactData fields Attributes, Channel, ContactId, InitialContactId,*)
(* InitiationMethod, InstanceARN, PreviousContactId and                    *)
(* MediaStreams.Customer.Audio (empty), hence without AwsRegion,           *)
(* CustomerEndpoint and Queue, is accepted and its omitted optional fields *)
(* read back as None.                                                      *)
C17_MinimalEventAccepted ==
    (Done /\ doc \in MinimalEvents) =>
        /\ result.ok
        /\ \A k \in {"AwsRegion", "CustomerEndpoint", "Queue",
                     "SystemEndpoint", "CustomerId", "References"} :
              result.val.Details.ContactData[k] = None

RECURSIVE Missing(_, _)
(* The key at the end of path p is absent from a document that has every   *)
(* object on the way to it.                                                *)
Missing(v, p) ==
    /\ IsObj(v)
    /\ IF Len(p) = 1 THEN ~Has(v, p[1])
       ELSE Has(v, p[1]) /\ Missing(Get(v, p[1]), Tail(p))

RequiredPaths ==
    {<<"Details">>, <<"Details", "ContactData">>, <<"Details", "Parameters">>,
     <<"Details", "ContactData", "MediaStreams", "Customer">>,
     <<"Details", "ContactData", "MediaStreams", "Customer", "Audio">>}
    \cup {<<"Details", "ContactData", k>> :
            k \in {"Attributes", "Channel", "ContactId", "InitialContactId",
                   "InitiationMethod", "InstanceARN", "PreviousContactId",
                   "MediaStreams"}}

(* C18: Contact-flow required fields.  An event in which Details,          *)
(* Details.ContactData, Details.Parameters or one of the ContactData       *)
(* fields Attributes, Channel, ContactId, InitialContactId,                *)
(* InitiationMethod, InstanceARN, PreviousContactId, MediaStreams,         *)
(* MediaStreams.Customer, MediaStreams.Customer.Audio is missing is        *)
(* rejected with a "Field required" error at that field.                   *)
C18_RequiredFields ==
    Done =>
        \A p \in RequiredPaths :
            Missing(doc, p) =>
                /\ ~result.ok
                /\ \E j \in DOMAIN result.errs :
                      result.errs[j] = Err(p, MsgMissing)

C18_Witness ==
    /\ Rejected
    /\ doc = EventOf([MediaStreams |-> Obj([Customer |-> EmptyObj])]
                        @@ BaseData)
    /\ Len(result.errs) = 1

(* The places of event d that hold a value of an enumeration, each with    *)
(* the values of its enumeration.                                          *)
EndpointSlots(x, k) ==
    IF IsSet(x, k) /\ IsObj(Get(x, k)) /\ Has(Get(x, k), "Type")
    THEN {[v |-> Get(Get(x, k), "Type"),
           values |-> ConnectContactFlowEndpointType_values]}
    ELSE {}

ReferenceSlots(x) ==
    IF IsSet(x, "References") /\ IsObj(Get(x, "References"))
    THEN UNION {
            {[v |-> Get(r, "Status"),
              values |-> ConnectContactReferenceStatus_values] :
                z \in {y \in {r} : IsObj(y) /\ IsSet(y, "Status")}}
            \cup {[v |-> Get(r, "Type"),
                   values |-> ConnectContactReferenceType_values] :
                z \in {y \in {r} : IsObj(y) /\ IsSet(y, "Type")}} :
            r \in {Get(x, "References").o[k] :
                        k \in DOMAIN Get(x, "References").o}}
    ELSE {}

EnumSlots(d) ==
    IF ~HasData(d) THEN {}
    ELSE {[v |-> Get(DataOf(d), "Channel"),
           values |-> ConnectContactFlowChannel_values] :
                z \in {y \in {DataOf(d)} : Has(y, "Channel")}}
         \cup {[v |-> Get(DataOf(d), "InitiationMethod"),
                values |-> ConnectContactFlowInitiationMethod_values] :
                z \in {y \in {DataOf(d)} : Has(y, "InitiationMethod")}}
         \cup EndpointSlots(DataOf(d), "CustomerEndpoint")
         \cup EndpointSlots(DataOf(d), "SystemEndpoint")
         \cup ReferenceSlots(DataOf(d))

InEnum(slot) == IsStr(slot.v) /\ slot.v.s \in slot.values

(* C19: Contact-flow enums.  An event is rejected whenever Channel,        *)
(* InitiationMethod, an endpoint Type, a reference Status or a reference   *)
(* Type holds a value outside its enumeration; in an accepted event each   *)
(* of them reads back as the member of its Enum class with that value.     *)
C19_Enums ==
    Done =>
        /\ (\E slot \in EnumSlots(doc) : ~InEnum(slot)) => ~result.ok
        /\ result.ok =>
              LET data == result.val.Details.ContactData
                  in == DataOf(doc)
              IN  /\ data.Channel = Member("ConnectContactFlowChannel",
                                           Get(in, "Channel").s)
                  /\ data.InitiationMethod =
                        Member("ConnectContactFlowInitiationMethod",
                               Get(in, "InitiationMethod").s)
                  /\ \A k \in {"CustomerEndpoint", "SystemEndpoint"} :
                        IsSet(in, k) =>
                            data[k].Type =
                                Member("ConnectContactFlowEndpointType",
                                       Get(Get(in, k), "Type").s)
                  /\ IsSet(in, "References") =>
                        \A r \in DOMAIN Get(in, "References").o :
                            LET ref == Get(in, "References").o[r]
                                out == data.References.items[r]
                            IN  /\ IsSet(ref, "Status") =>
                                      out.Status =
                                        Member("ConnectContactReferenceStatus",
                                               Get(ref, "Status").s)
                                /\ IsSet(ref, "Type") =>
                                      out.Type =
                                        Member("ConnectContactReferenceType",
                                               Get(ref, "Type").s)

C19_Witness ==
    /\ Rejected
    /\ HasData(doc)
    /\ IsSet(DataOf(doc), "References")
    /\ Get(DataOf(doc), "References") =
            Obj("ref" :> Obj([Status |-> Str("UNKNOWN_STATUS"),
                              Type |-> Str("EMAIL_MESSAGE")]))
    /\ result.errs =
          <<Err(<<"Details", "ContactData", "References", "ref", "Status">>,
                MsgEnum)>>

----------------------------------------------------------------------------
(* Properties of concurrent calls (specification SpecConcurrent)           *)

(* C20: Reentrancy.  In every interleaving of the steps of concurrent      *)
(* calls, a call that has finished holds exactly the outcome of validating *)
(* its document alone, and a call in progress holds the items and error    *)
(* lines of the steps of its own document that it has passed, and nothing *)
(* else.                                                                   *)
Passed(f) == StepItems(SubSeq(StepsOf(f.doc), 1, f.i - 1), 1)

C20_Reentrancy ==
    \A c \in Callers :
        /\ calls[c].pc = "done"
              => calls[c].result = ProficiencyRoutingPayload(calls[c].doc)
        /\ calls[c].pc = "items"
              => /\ calls[c].errs = Passed(calls[c]).errs
                 /\ calls[c].errs = <<>>
                        => calls[c].vals = Passed(calls[c]).val

C20_Witness ==
    /\ \A c \in Callers : calls[c].pc = "done"
    /\ calls[1].doc # calls[2].doc
    /\ calls[1].result.ok /\ Len(calls[1].result.val.Steps) = 2
    /\ ~calls[2].result.ok /\ Len(calls[2].result.errs) = 2

----------------------------------------------------------------------------
(* Properties of the order and the wording of errors, and of the input     *)

(* C21: Input left unchanged.  A validation, whether it returns a payload  *)
(* or raises, leaves every key and value of the document it was handed as  *)
(* it was, nested operand arrays and null-valued keys included.            *)
C21_InputUnchanged ==
    [][/\ pc = "ready" => doc' = doc
       /\ pc = "dumped" => dumped' = dumped]_vars

C21_Witness ==
    /\ Rejected
    /\ Len(StepsOf(doc)) = 1
    /\ \E e \in StepExprs(doc) :
          /\ NodeKind(e) = "compound"
          /\ Has(e, "OrExpression") /\ Get(e, "OrExpression") = Null
          /\ IsSet(e, "AndExpression") /\ Len(Get(e, "AndExpression").a) = 2
          /\ \E x \in OperandsOf(e) :
                /\ NodeKind(x) = "compound"
                /\ OperandsOf(x) # {}

(* The lowest position (from 1) of a step before the last without Expiry.  *)
FirstMissingExpiry(d) ==
    CHOOSE i \in 1..(Len(StepsOf(d)) - 1) :
        /\ ~IsSet(StepsOf(d)[i], "Expiry")
        /\ \A h \in 1..(i - 1) : IsSet(StepsOf(d)[h], "Expiry")

RejectedByExpiryRule ==
    /\ Rejected /\ IndividuallyValid(doc)
    /\ \E i \in 1..(Len(StepsOf(doc)) - 1) : ~IsSet(StepsOf(doc)[i], "Expiry")

(* C22: Missing-expiry error names the step.  When a payload of N >= 2     *)
(* steps is rejected by the expiry-completeness rule, the error line of    *)
(* that rule carries the 0-based index of the lowest non-last step without *)
(* Expiry: index 0 for a two-step payload whose step 0 has none.  (The     *)
(* text of the line is the same for every step, so the index can only be   *)
(* in its location.)                                                       *)
C22_MissingExpiryNamesStep ==
    RejectedByExpiryRule =>
        \E j \in DOMAIN result.errs :
            /\ result.errs[j].msg = MsgExpiryRequired
            /\ ToString(FirstMissingExpiry(doc) - 1)
                    \in Elems(result.errs[j].loc)

(* A compound node with both of its keys set.                              *)
Ambiguous(e) ==
    /\ NodeKind(e) = "compound"
    /\ IsSet(e, "AndExpression") /\ IsSet(e, "OrExpression")

(* The lines of the ValidationError of a CompoundExpr that failed the      *)
(* single-key check, and nothing else.                                     *)
AmbiguityOnly == <<Err(<<>>, MsgSingleKey)>>

(* C23: Ambiguity is reported before emptiness.  A compound node with both *)
(* AndExpression and OrExpression set is rejected with the "exactly one"   *)
(* error and with nothing else, whatever the two values hold (two empty    *)
(* arrays included): as a step's Expression, and as the first failing      *)
(* operand of a step's compound Expression.                                *)
C23_AmbiguityFirst ==
    Done =>
        \A i \in 1..Len(StepsOf(doc)) :
            LET s == StepsOf(doc)[i]
                e == Get(s, "Expression")
                at == <<"Steps", ToString(i - 1), "Expression">>
            IN  (IsObj(s) /\ Has(s, "Expression")) =>
                  /\ Ambiguous(e) =>
                        /\ ~result.ok
                        /\ \E j \in DOMAIN result.errs :
                              result.errs[j].loc = at
                        /\ \A j \in DOMAIN result.errs :
                              result.errs[j].loc = at
                                  => result.errs[j].ctx = AmbiguityOnly
                  /\ \A k \in CompoundKeys :
                        ( /\ NodeKind(e) = "compound"
                          /\ IsSet(e, k) /\ IsArr(Get(e, k))
                          /\ \A k2 \in CompoundKeys \ {k} : ~IsSet(e, k2)
                          /\ \E h \in DOMAIN Get(e, k).a :
                                /\ Ambiguous(Get(e, k).a[h])
                                /\ \A g \in 1..(h - 1) :
                                      ConformingExpr(Get(e, k).a[g]) )
                        => /\ ~result.ok
                           /\ \E j \in DOMAIN result.errs :
                                /\ result.errs[j].loc = at
                                /\ Len(result.errs[j].ctx) = 1
                                /\ result.errs[j].ctx[1].loc = <<k>>
                                /\ result.errs[j].ctx[1].ctx = AmbiguityOnly

C23_Witness ==
    /\ Rejected
    /\ StepsOf(doc) =
          <<Obj("Expression" :> Obj(("AndExpression" :> Arr(<<>>))
                                    @@ ("OrExpression" :> Arr(<<>>))))>>
    /\ Mentions(result.errs, MsgSingleKey)

(* Step i of document d, on its own, is not a valid Step.                  *)
StepFails(d, i) == ~IsObj(StepsOf(d)[i]) \/ ~Step(StepsOf(d)[i]).ok

(* An error line lies at or under location p.                              *)
Under(errs, p) ==
    \E j \in DOMAIN errs :
        /\ Len(errs[j].loc) >= Len(p)
        /\ SubSeq(errs[j].loc, 1, Len(p)) = p

(* C24: Expiry rule runs last.  The expiry-completeness rule is evaluated  *)
(* only when every step has parsed: a payload with a failing step is       *)
(* rejected with an error located at that step, and the missing-expiry     *)
(* error appears in no error of such a payload, also when a step before    *)
(* the last has no Expiry.                                                 *)
C24_ExpiryRuleLast ==
    Done =>
        /\ \A i \in 1..Len(StepsOf(doc)) :
              StepFails(doc, i) =>
                  /\ ~result.ok
                  /\ Under(result.errs, <<"Steps", ToString(i - 1)>>)
                  /\ ~Mentions(result.errs, MsgExpiryRequired)
        /\ Mentions(result.errs, MsgExpiryRequired)
              => /\ IndividuallyValid(doc)
                 /\ result.errs = <<Err(<<>>, MsgExpiryRequired)>>

C24_Witness ==
    /\ Rejected
    /\ Len(StepsOf(doc)) = 3
    /\ ConformingStep(StepsOf(doc)[1]) /\ ~IsSet(StepsOf(doc)[1], "Expiry")
    /\ ConformingStep(StepsOf(doc)[2]) /\ IsSet(StepsOf(doc)[2], "Expiry")
    /\ StepFails(doc, 3)
    /\ ~Mentions(result.errs, MsgExpiryRequired)

(* Document d with the Expression of step i cut down to its keys in K.     *)
RestrictExpr(d, i, K) ==
    LET e == Get(StepsOf(d)[i], "Expression")
        cut == Obj([k \in K \cap DOMAIN e.o |-> e.o[k]])
    IN  Obj(("Steps" :>
                Arr([StepsOf(d) EXCEPT ![i] = Obj(("Expression" :> cut) @@ @.o)]))
            @@ d.o)

(* The discriminator keys of the variant that expression e is read as.     *)
ChosenKeys(e) ==
    IF Has(e, "AttributeCondition") THEN {"AttributeCondition"}
    ELSE IF Has(e, "NotAttributeCondition") THEN {"NotAttributeCondition"}
    ELSE CompoundKeys

(* The outcome reported for the Expression of 0-based step i.              *)
ExprLines(errs, i) ==
    {errs[j].ctx : j \in {h \in DOMAIN errs :
        errs[h].loc = <<"Steps", ToString(i), "Expression">>}}

(* C25: Discriminator precedence.  An Expression object is read by its     *)
(* first key in the order AttributeCondition, NotAttributeCondition,       *)
(* AndExpression/OrExpression: with several of them present the outcome,   *)
(* payload or error, is that of the same document without the keys of      *)
(* lower precedence, and what is reported for the expression lies under    *)
(* the key of highest precedence (an invalid AttributeCondition next to a  *)
(* valid AndExpression gives the attribute-condition error).               *)
C25_Precedence ==
    Done =>
        \A i \in 1..Len(StepsOf(doc)) :
            LET s == StepsOf(doc)[i]
                e == Get(s, "Expression")
            IN  (IsObj(s) /\ Has(s, "Expression") /\ IsObj(e)
                    /\ DiscriminatorKeys \cap DOMAIN e.o # {}) =>
                  /\ result = ProficiencyRoutingPayload(
                                  RestrictExpr(doc, i, ChosenKeys(e)))
                  /\ \A k \in {"AttributeCondition", "NotAttributeCondition"} :
                        ChosenKeys(e) = {k} =>
                            /\ result.ok =>
                                  k \in DOMAIN result.val.Steps[i].Expression
                            /\ \A lines \in ExprLines(result.errs, i - 1) :
                                  \A h \in DOMAIN lines : lines[h].loc[1] = k

C25_Witness ==
    /\ Rejected
    /\ StepsOf(doc) =
          <<Obj("Expression" :>
                Obj(("AttributeCondition" :> BothSetCond)
                    @@ ("AndExpression" :> Arr(<<ValidExpr>>))))>>
    /\ Mentions(result.errs,
          "ProficiencyLevel must not be set when ComparisonOperator is 'Range'")

(* The four texts of a coupling violation.                                 *)
MsgRangeRequired ==
    "Range must be provided when ComparisonOperator is 'Range'"
MsgLevelForbidden ==
    "ProficiencyLevel must not be set when ComparisonOperator is 'Range'"
MsgLevelRequired ==
    "ProficiencyLevel must be provided when ComparisonOperator is 'NumberGreaterOrEqualTo'"
MsgRangeForbidden ==
    "Range must not be set when ComparisonOperator is 'NumberGreaterOrEqualTo'"

(* Condition c has nothing wrong with any single field.                    *)
FieldsValid(c) ==
    /\ IsObj(c)
    /\ Has(c, "Name") /\ IsStr(Get(c, "Name"))
    /\ Has(c, "Value") /\ IsStr(Get(c, "Value"))
    /\ Has(c, "ComparisonOperator")
    /\ IsStr(Get(c, "ComparisonOperator"))
    /\ Get(c, "ComparisonOperator").s \in ComparisonOperators
    /\ IsSet(c, "ProficiencyLevel") => IsNum(Get(c, "ProficiencyLevel"))
    /\ IsSet(c, "Range") => OrderedRange(Get(c, "Range"))

(* The text a coupling violation of c has to be reported with.             *)
CouplingMsg(c) ==
    IF Get(c, "ComparisonOperator") = Str("Range")
    THEN IF ~IsSet(c, "Range") THEN MsgRangeRequired ELSE MsgLevelForbidden
    ELSE IF ~IsSet(c, "ProficiencyLevel") THEN MsgLevelRequired
         ELSE MsgRangeForbidden

(* C26: Coupling error sub-reason.  A coupling violation says which kind   *)
(* it is: "must be provided", naming Range for operator Range and          *)
(* ProficiencyLevel for NumberGreaterOrEqualTo, or "must not be set",      *)
(* naming the field that is forbidden.  Operator Range with a valid Range  *)
(* and a ProficiencyLevel is reported as forbidden-present; with the       *)
(* required field missing and the forbidden one present at once, the       *)
(* required-missing text is the one reported.                              *)
C26_CouplingReason ==
    (Done /\ SingleLeafDoc(doc)) =>
        \A k \in {"AttributeCondition", "NotAttributeCondition"} :
            LET e == Get(StepsOf(doc)[1], "Expression")
            IN  (Has(e, k) /\ FieldsValid(Get(e, k)) /\ ~Coupled(Get(e, k)))
                  => /\ ~result.ok
                     /\ ExprLines(result.errs, 0)
                            = {<<Err(<<k>>, CouplingMsg(Get(e, k)))>>}

C26_Witness ==
    /\ Rejected /\ SingleLeafDoc(doc)
    /\ \E c \in LeafConds(doc) :
          /\ FieldsValid(c)
          /\ Get(c, "ComparisonOperator") = Str("Range")
          /\ ~Has(c, "Range") /\ IsSet(c, "ProficiencyLevel")
    /\ Mentions(result.errs, MsgRangeRequired)

----------------------------------------------------------------------------
(* Properties of the recursion (specification SpecWalk)                    *)

RECURSIVE ValueAt(_, _)
(* The value of document v at path p: keys of objects, 0-based indices of  *)
(* arrays.                                                                 *)
ValueAt(v, p) ==
    IF p = <<>> THEN v
    ELSE IF IsObj(v) THEN ValueAt(Get(v, p[1]), Tail(p))
    ELSE ValueAt(v.a[CHOOSE j \in 1..Len(v.a) : ToString(j - 1) = p[1]],
                 Tail(p))

(* Every call in progress was made with a value of the document, one that  *)
(* lies strictly inside the value of the call that made it.                *)
WalkDescends ==
    \A k \in 2..Len(calls) :
        /\ calls[k].v = ValueAt(doc, calls[k].path)
        /\ Len(calls[k].path) > Len(calls[k - 1].path)
        /\ SubSeq(calls[k].path, 1, Len(calls[k - 1].path))
                = calls[k - 1].path

(* C27: Termination.  For every document of finitely many steps, operands  *)
(* and levels of nesting, validation finishes, with a payload or an error; *)
(* every call of the recursion is made with a value strictly inside the    *)
(* caller's value, and no call is made twice for the same place of the     *)
(* document.                                                               *)
C27_Termination ==
    /\ <>(pc = "done")
    /\ [](pc = "done" => result = ProficiencyRoutingPayload(doc))
    /\ []WalkDescends
    /\ [][Len(calls') > Len(calls)
            => calls'[Len(calls')].path \notin visited]_vars

C27_Witness ==
    /\ pc = "done" /\ result.ok /\ calls = <<>>
    /\ Cardinality(visited) >= 4
    /\ \E p \in visited : Len(p) >= 7

----------------------------------------------------------------------------
(* Properties of the two dispatchers                                       *)

(* The expression has none of the four discriminator keys, or is not an    *)
(* object: the cases the two dispatchers word differently.                 *)
Undispatched(v) ==
    IsObj(v) => \A k \in DiscriminatorKeys : ~Has(v, k)

(* parse_expression and parse_expression_item give value v the same        *)
(* verdict, on acceptance the same model, and on rejection the same lines  *)
(* except where neither dispatches.                                        *)
DispatchAgrees(v) ==
    /\ parse_expression(v).ok = parse_expression_item(v).ok
    /\ parse_expression(v).ok
            => parse_expression(v).val = parse_expression_item(v).val
    /\ ~parse_expression(v).ok /\ ~Undispatched(v)
            => parse_expression(v).errs = parse_expression_item(v).errs

(* C28: top-level and nested dispatch agree.  For every value met in a     *)
(* validated document, as a step's Expression or as an operand at any      *)
(* depth, Step.parse_expression and parse_expression_item give the same    *)
(* verdict and, on acceptance, build the same node with the same content:  *)
(* an expression is valid as a step's Expression exactly when it is valid  *)
(* as an operand.                                                          *)
C28_DispatchAgree ==
    Done => \A v \in ExprNodes(doc) : DispatchAgrees(v)

(* An accepted document with a compound operand, which both dispatchers    *)
(* turn into a CompoundExpr.                                               *)
C28_Witness ==
    /\ Accepted
    /\ \E v \in OperandNodes(doc) :
            /\ NodeKind(v) = "compound"
            /\ parse_expression(v).ok /\ parse_expression_item(v).ok
            /\ parse_expression(v).val.t = "CompoundExpr"

----------------------------------------------------------------------------
(* Properties of the documents of the grammar                              *)

(* Every expression object of the document carries one discriminator key   *)
(* and no other.                                                           *)
OneKeyEach(d) ==
    \A n \in ExprNodes(d) :
        IsObj(n) => Cardinality({k \in DiscriminatorKeys : Has(n, k)}) = 1

(* The document follows the input grammar and has an Expiry on every step  *)
(* but the last.                                                           *)
FollowsGrammar(d) == Conforming(d) /\ OneKeyEach(d)

RECURSIVE Depth(_)
(* The nesting depth of an expression: 0 for a leaf.                       *)
Depth(e) ==
    IF OperandsOf(e) = {} THEN 0
    ELSE 1 + CHOOSE m \in {Depth(x) : x \in OperandsOf(e)} :
                \A x \in OperandsOf(e) : Depth(x) <= m

(* C29: no false rejects.  Every document that follows the input grammar   *)
(* (Steps non-empty; each expression object with one discriminator key;    *)
(* non-empty operand arrays; leaves with Name, Value, a legal              *)
(* ComparisonOperator and the coupled field; min <= max;                   *)
(* DurationInSeconds > 0) and has an Expiry on every step but the last is  *)
(* accepted, at every nesting depth and for every number of steps.         *)
C29_NoFalseRejects ==
    Done /\ FollowsGrammar(doc) => result.ok

(* An accepted document of the grammar with more than one step and an      *)
(* expression nested as deep as the documents go.                          *)
C29_Witness ==
    /\ Accepted /\ FollowsGrammar(doc)
    /\ Len(StepsOf(doc)) >= 2
    /\ \E e \in StepExprs(doc) : Depth(e) = MaxDepth

----------------------------------------------------------------------------
(* Properties of null in a compound node                                   *)

(* Compound node n holds a non-empty array under key k and null under the  *)
(* other compound key.                                                     *)
OtherNull(n, k) ==
    /\ NodeKind(n) = "compound"
    /\ Has(n, k) /\ IsArr(Get(n, k)) /\ Len(Get(n, k).a) >= 1
    /\ \A j \in CompoundKeys \ {k} : Has(n, j) /\ Get(n, j) = Null

(* Every compound key of compound node n holds null.                       *)
OnlyNull(n) ==
    /\ NodeKind(n) = "compound"
    /\ \A k \in CompoundKeys : Has(n, k) => Get(n, k) = Null

(* C30: null counts as absent in a compound node.  An expression object    *)
(* with a non-empty array under one of AndExpression / OrExpression and    *)
(* null under the other is accepted exactly when its operands are, as the  *)
(* compound variant of the array's key, the other field being None; an     *)
(* object whose only compound keys hold null is rejected with the          *)
(* "exactly one" error, as one that has neither.  The same holds for a     *)
(* step's Expression in the verdict on the document.                       *)
C30_NullIsAbsent ==
    Done =>
        /\ \A n \in ExprNodes(doc) :
              /\ \A k \in CompoundKeys :
                    OtherNull(n, k) =>
                        /\ parse_expression(n).ok
                              <=> \A x \in OperandsOf(n) :
                                      parse_expression_item(x).ok
                        /\ parse_expression(n).ok =>
                              /\ parse_expression(n).val.t = "CompoundExpr"
                              /\ parse_expression(n).val[k] # None
                              /\ \A j \in CompoundKeys \ {k} :
                                      parse_expression(n).val[j] = None
              /\ OnlyNull(n) =>
                    /\ ~parse_expression(n).ok
                    /\ parse_expression(n).errs = AmbiguityOnly
                    /\ parse_expression_item(n).errs = AmbiguityOnly
        /\ \A k \in CompoundKeys :
              (/\ Len(StepsOf(doc)) = 1
               /\ \E e \in StepExprs(doc) :
                    /\ OtherNull(e, k)
                    /\ \A x \in OperandsOf(e) : ConformingExpr(x)
               /\ ~IsSet(StepsOf(doc)[1], "Expiry"))
                    => result.ok
        /\ (\E e \in StepExprs(doc) : OnlyNull(e)) => ~result.ok

(* An accepted document whose Expression holds operands under              *)
(* AndExpression and null under OrExpression.                              *)
C30_Witness ==
    /\ Accepted
    /\ \E e \in StepExprs(doc) : OtherNull(e, "AndExpression")

====
